---- MODULE Spec2Model ----
(***************************************************************************)
(* Model of ai_data_analyst/src: code_executor.py (execute_code and the    *)
(* artifact collectors _collect_figures / _collect_tables), llm_utils.py   *)
(* (ask_llm, reset_chat_session, send_execution_results and the module     *)
(* globals they share) and app.py (the Streamlit script and                *)
(* _process_user_query).                                                   *)
(*                                                                         *)
(* Strings are sequences of one-character strings, so that str.strip,      *)
(* str.split, str.startswith and the "'=' in ..." test of the source act   *)
(* on the characters of the submitted code.  The submitted code is built   *)
(* from a catalogue of Python statements (StmtText); exec and eval are     *)
(* modelled by an interpreter for exactly these statements.                *)
(***************************************************************************)
EXTENDS Integers, Sequences, FiniteSets, TLC

VARIABLES
    SAFE_BUILTINS,  \* the module-level dict of code_executor.py (line 18)
    dataframe,      \* the caller's dataset object (the argument of execute_code)
    host_files,     \* paths written on the host's file system
    pc,             \* "idle" | "called" | "returned" | "raised": position of the call
    code,           \* the code argument of the call in progress / last call
    result,         \* the ExecutionResult returned by the last call, or NoResult
    escaped,        \* the exception that propagated out of the last call, or NoExc
    ran,            \* what the last call did (environment built, exception, console, ...)
    df_before,      \* the value of the caller's dataset when the last call started
    again,          \* TRUE when the last call repeats the call before it
    first,          \* outcome of the call that `again` repeats
    \* llm_utils.py, lines 18-21: the module-level globals
    _chat_session,          \* None, or the chat object of line 151
    _current_data_summary,  \* None, or the summary stored at line 161
    _client,                \* None, or the client of line 144
    created,        \* number of chat objects that chats.create has returned so far
    chats,          \* for each chat object, the messages delivered on it
    calls,          \* number of calls that reached llm_utils so far
    call,           \* for each thread, its call of llm_utils in progress or its last
                    \* call: the arguments, the position, and what it did so far
    \* app.py: Streamlit's session state and the query in progress
    session_state,  \* dataset_summary, chat_history, dataset_uploaded, last_uploaded_file
    query,          \* the locals of _process_user_query while it runs
    steps,          \* the calls that the last _process_user_query made, in order
    queries         \* number of user queries so far

exec_vars == <<code, result, escaped, ran, df_before, again, first>>
llm_vars == <<_chat_session, _current_data_summary, _client, created, chats, calls, call>>
app_vars == <<session_state, query, steps, queries>>
vars == <<SAFE_BUILTINS, dataframe, host_files, pc, exec_vars, llm_vars, app_vars>>

(***************************************************************************)
(* Bounds of the model.                                                    *)
(***************************************************************************)
MaxPrefix == 1   \* statements before the final line of a submitted code
MaxDepth == 2    \* nesting depth of the containers handed to the collectors
MaxCalls == 2    \* calls of ask_llm / send_execution_results in a run of llm_utils
MaxQueries == 1  \* user queries in a run of the app

\* The scripts of the Streamlit sessions of one process run in a thread
\* each, and all of them import the one module llm_utils.  A thread runs
\* from one blocking call (the read of the system prompt, send_message) to
\* the next without another thread in between; while it waits in such a
\* call the others run.
Threads == {"A", "B"}

(***************************************************************************)
(* Text: the str methods used by execute_code.                             *)
(***************************************************************************)
\* The whitespace characters that occur in the modelled inputs.
Whitespace == {" ", "\n"}

\* A value is computed once and named by binding it as the element of a
\* singleton set: Only({e(v) : v \in {x}}) is e(x).
Only(S) == CHOOSE x \in S : TRUE

MinOf(S) == Only({CHOOSE i \in T : \A j \in T : i <= j : T \in {S}})
MaxOf(S) == Only({CHOOSE i \in T : \A j \in T : i >= j : T \in {S}})

\* str.strip(): leading and trailing whitespace removed.
strip(s) ==
    Only({IF keep = {} THEN <<>> ELSE SubSeq(t, MinOf(keep), MaxOf(keep))
          : <<t, keep>> \in {<<t, {i \in 1..Len(t) : t[i] \notin Whitespace}>> : t \in {s}}})

\* str.split(sep) for a one-character separator.
RECURSIVE split(_, _)
split(s, sep) ==
    Only({IF at = {} THEN <<t>>
          ELSE Only({<<SubSeq(t, 1, i - 1)>> \o split(SubSeq(t, i + 1, Len(t)), sep)
                     : i \in {MinOf(at)}})
          : <<t, at>> \in {<<t, {i \in 1..Len(t) : t[i] = sep}>> : t \in {s}}})

\* '\n'.join(lines)
RECURSIVE join(_)
join(lines) ==
    Only({IF ls = <<>> THEN <<>>
          ELSE IF Len(ls) = 1 THEN ls[1]
          ELSE ls[1] \o <<"\n">> \o join(Tail(ls))
          : ls \in {lines}})

\* str.startswith(prefix)
startswith(s, prefix) ==
    \E t \in {s} : Len(prefix) <= Len(t) /\ SubSeq(t, 1, Len(prefix)) = prefix

\* c in s, for a character c
contains(s, c) == \E t \in {s} : \E i \in 1..Len(t) : t[i] = c

\* The keyword prefixes of line 130.
Keywords == {
    <<"i","f"," ">>,
    <<"f","o","r"," ">>,
    <<"w","h","i","l","e"," ">>,
    <<"d","e","f"," ">>,
    <<"c","l","a","s","s"," ">>,
    <<"i","m","p","o","r","t"," ">>,
    <<"f","r","o","m"," ">> }

\* Lines 128-132: the string heuristic for "the last line is an expression".
is_expression(last_line) ==
    \E line \in {last_line} :
        /\ line # <<>>
        /\ ~ \E k \in Keywords : startswith(line, k)
        /\ ~ contains(split(line, "#")[1], "=")

\* str(n) for the small naturals the model prints.
Digit(d) == <<"0","1","2","3","4","5","6","7","8","9">>[d + 1]
RECURSIVE IntText(_)
IntText(n) == IF n < 10 THEN <<Digit(n)>> ELSE IntText(n \div 10) \o <<Digit(n % 10)>>

(***************************************************************************)
(* Values that the submitted code handles.                                                 *)
(***************************************************************************)
None == [kind |-> "None"]
IntV(n) == [kind |-> "int", v |-> n]
BoolV(b) == [kind |-> "bool", v |-> b]
StrV(s) == [kind |-> "str", v |-> s]
Builtin(name) == [kind |-> "builtin", name |-> name]
Module(name) == [kind |-> "module", name |-> name]
Figure(id) == [kind |-> "figure", id |-> id]
List(items) == [kind |-> "list", items |-> items]
Tuple(items) == [kind |-> "tuple", items |-> items]
Set(items) == [kind |-> "set", items |-> items]
\* A dict is its sequence of items in insertion order.
Dict(items) == [kind |-> "dict", items |-> items]
Item(k, v) == [key |-> k, val |-> v]
\* A list that contains itself: the item stands for the enclosing list.
SelfRef == [kind |-> "selfref"]
CyclicList == List(<<SelfRef>>)
\* The value bound to "__builtins__" in safe_globals is the module-level
\* SAFE_BUILTINS object itself (line 106), not a copy of it.
BuiltinsRef == [kind |-> "ref", to |-> "SAFE_BUILTINS"]

\* A pandas DataFrame: column names, number of rows, and the cells column by column.
DataFrame(columns, nrows, data) ==
    [kind |-> "DataFrame", columns |-> columns, nrows |-> nrows, data |-> data]
shape(df) == <<df.nrows, Len(df.columns)>>

\* df[name] = value: the column is overwritten, or appended when new.
SetColumn(df, name, value) ==
    LET col == [r \in 1..df.nrows |-> value]
        at == {i \in 1..Len(df.columns) : df.columns[i] = name}
    IN  IF at = {}
        THEN [df EXCEPT !.columns = @ \o <<name>>, !.data = @ \o <<col>>]
        ELSE [df EXCEPT !.data = [i \in 1..Len(@) |-> IF i \in at THEN col ELSE @[i]]]

\* dict lookups and updates on a sequence of items.
Has(items, k) == \E i \in 1..Len(items) : items[i].key = k
Get(items, k) == items[CHOOSE i \in 1..Len(items) : items[i].key = k].val
Put(items, k, v) ==
    IF Has(items, k)
    THEN [i \in 1..Len(items) |-> IF items[i].key = k THEN Item(k, v) ELSE items[i]]
    ELSE Append(items, Item(k, v))
values(items) == [i \in 1..Len(items) |-> items[i].val]

(***************************************************************************)
(* The module-level allow-list (lines 18-50) and the ExecutionResult.      *)
(***************************************************************************)
SafeBuiltinNames ==
    <<"abs", "all", "any", "bool", "dict", "enumerate", "float", "int", "len",
      "list", "max", "min", "pow", "range", "round", "set", "sorted", "sum",
      "tuple", "zip", "str", "repr", "print", "ValueError", "KeyError",
      "TypeError", "AttributeError", "IndexError">>

\* SAFE_BUILTINS as the module defines it at import.
InitialSafeBuiltins ==
    [i \in 1..Len(SafeBuiltinNames) |->
        Item(SafeBuiltinNames[i], Builtin(SafeBuiltinNames[i]))]

NoError == [kind |-> "None", exc |-> "", msg |-> ""]
ErrorText(msg) == [kind |-> "text", exc |-> "", msg |-> msg]
NoExc == [type |-> "none", msg |-> ""]
Exc(type, msg) == [type |-> type, msg |-> msg]
\* Where an exception was raised: the line of execute_code that called exec
\* or eval (136, 138 or 142), the line of the submitted source, and for a
\* syntax error the offending source line and the carets under its token.
NoTb == [frame |-> 0, lineno |-> 0, text |-> <<>>, carets |-> <<>>]
\* traceback.format_exc(limit=4): the report names the frames, the class of
\* the exception and its message.
format_exc(exc, tb) ==
    [kind |-> "traceback", exc |-> exc.type, msg |-> exc.msg, frame |-> tb.frame,
     lineno |-> tb.lineno, text |-> tb.text, carets |-> tb.carets]

\* The dataclass of lines 53-64.
ExecutionResult(figures, tables, stdout, error) ==
    [figures |-> figures, tables |-> tables, stdout |-> stdout, error |-> error]
NoResult == [kind |-> "NoResult"]

\* The exception classes that "except Exception" (line 144) catches.
ExceptionClasses ==
    {"NameError", "SyntaxError", "IndentationError", "KeyError", "TypeError",
     "ValueError", "AttributeError", "IndexError", "RecursionError"}
IsException(exc) == exc.type \in ExceptionClasses

(***************************************************************************)
(* The artifact collectors (lines 67-96).                                  *)
(***************************************************************************)
\* results.append / results.extend over the loop "for value in values": the
\* finds of each value, concatenated in the order of the values.
RECURSIVE extend_reversed(_)
extend_reversed(finds) ==
    Only({IF Len(fs) = 0 THEN <<>>
          ELSE IF Len(fs) = 1 THEN fs[1]
          ELSE extend_reversed(SubSeq(fs, Len(fs) \div 2 + 1, Len(fs)))
               \o extend_reversed(SubSeq(fs, 1, Len(fs) \div 2))
          : fs \in {<<>> \o finds}})
RECURSIVE extend(_)
extend(finds) ==
    Only({IF Len(fs) = 0 THEN <<>>
          ELSE IF Len(fs) = 1 THEN fs[1]
          ELSE extend(SubSeq(fs, 1, Len(fs) \div 2))
               \o extend(SubSeq(fs, Len(fs) \div 2 + 1, Len(fs)))
          : fs \in {<<>> \o finds}})

\* Lines 67-77 without the dict branch of lines 75-76.
RECURSIVE _collect_figures_no_dict(_)
_collect_figures_no_dict(vals) ==
    extend([i \in 1..Len(vals) |->
        Only({IF value.kind = "figure" THEN <<value>>
              ELSE IF value.kind \in {"list", "tuple", "set"}
                   THEN _collect_figures_no_dict(value.items)
              ELSE <<>>
              : value \in {vals[i]}})])

RECURSIVE _collect_figures(_)
_collect_figures(vals) ==
    extend([i \in 1..Len(vals) |->
        Only({IF value.kind = "figure" THEN <<value>>
              ELSE IF value.kind \in {"list", "tuple", "set"}
                   THEN _collect_figures(value.items)
              ELSE IF value.kind = "dict"
                   THEN _collect_figures(values(value.items))
              ELSE <<>>
              : value \in {vals[i]}})])

\* Lines 86-89 as a deep comparison: the cells are compared as well.
is_original_deep(value, original_df) == value = original_df

\* Lines 86-89: "same shape and columns".
is_original(value, original_df) ==
    /\ shape(value) = shape(original_df)
    /\ value.columns = original_df.columns

RECURSIVE _collect_tables(_, _)
_collect_tables(vals, original_df) ==
    extend([i \in 1..Len(vals) |->
        Only({IF value.kind = "DataFrame"
              THEN IF ~ is_original(value, original_df) THEN <<value>> ELSE <<>>
              ELSE IF value.kind \in {"list", "tuple", "set"}
                   THEN _collect_tables(value.items, original_df)
              ELSE IF value.kind = "dict"
                   THEN _collect_tables(values(value.items), original_df)
              ELSE <<>>
              : value \in {vals[i]}})])

\* The recursion of lines 74/76 and 93/95 on a container that contains itself
\* never ends: the interpreter raises RecursionError.
RECURSIVE CollectRecursionError(_)
CollectRecursionError(vals) ==
    \E vs \in {vals} : \E i \in 1..Len(vs) : \E value \in {vs[i]} :
        \/ value.kind = "selfref"
        \/ /\ value.kind \in {"list", "tuple", "set"}
           /\ CollectRecursionError(value.items)
        \/ /\ value.kind = "dict"
           /\ CollectRecursionError(values(value.items))

(***************************************************************************)
(* The submitted code.  Each catalogue entry is one Python statement; the  *)
(* interpreter below gives it the meaning Python gives it inside the       *)
(* environment that execute_code builds.                                   *)
(***************************************************************************)
StmtText(id) ==
    CASE id = "print" ->   \* print(len(__builtins__))
        <<"p","r","i","n","t","(","l","e","n","(","_","_","b","u","i","l","t","i","n","s","_","_",")",")">>
    [] id = "mut" ->       \* df['z'] = 0
        <<"d","f","[","'","z","'","]"," ","="," ","0">>
    [] id = "fig" ->       \* fig = go.Figure()
        <<"f","i","g"," ","="," ","g","o",".","F","i","g","u","r","e","(",")">>
    [] id = "open" ->      \* open('f')
        <<"o","p","e","n","(","'","f","'",")">>
    [] id = "cmp" ->       \* len(df) >= 0
        <<"l","e","n","(","d","f",")"," ",">","="," ","0">>
    [] id = "ncols" ->     \* len(df.columns)  # n=2
        <<"l","e","n","(","d","f",".","c","o","l","u","m","n","s",")"," "," ","#"," ","n","=","2">>
    [] id = "setb" ->      \* __builtins__['open'] = len
        <<"_","_","b","u","i","l","t","i","n","s","_","_","[","'","o","p","e","n","'","]"," ","="," ","l","e","n">>
    [] id = "base" ->      \* raise ValueError.__mro__[2]()
        <<"r","a","i","s","e"," ","V","a","l","u","e","E","r","r","o","r",".","_","_","m","r","o","_","_","[","2","]","(",")">>
    [] id = "cyc" ->       \* x = []; x.append(x)
        <<"x"," ","="," ","[","]",";"," ","x",".","a","p","p","e","n","d","(","x",")">>
    [] id = "io" ->        \* df.to_csv('out.csv')
        <<"d","f",".","t","o","_","c","s","v","(","'","o","u","t",".","c","s","v","'",")">>
    [] id = "esc" ->
        \* try:
        \*     raise ValueError
        \* except ValueError as e:
        \*     e.__traceback__.tb_frame.f_back.f_locals['dataframe']['z'] = 0
        <<"t","r","y",":","\n"," "," "," "," ","r","a","i","s","e"," ","V","a","l","u","e","E","r","r","o","r","\n","e","x","c","e","p","t"," ","V","a","l","u","e","E","r","r","o","r"," ","a","s"," ","e",":","\n"," "," "," "," ","e",".","_","_","t","r","a","c","e","b","a","c","k","_","_",".","t","b","_","f","r","a","m","e",".","f","_","b","a","c","k",".","f","_","l","o","c","a","l","s","[","'","d","a","t","a","f","r","a","m","e","'","]","[","'","z","'","]"," ","="," ","0">>
    [] id = "noc" ->       \* raise ValueError('No code to execute')
        <<"r","a","i","s","e"," ","V","a","l","u","e","E","r","r","o","r","(","'","N","o"," ","c","o","d","e"," ","t","o"," ","e","x","e","c","u","t","e","'",")">>
    [] id = "blank" ->     \* a line holding one space
        <<" ">>

Stmts ==
    {"print", "mut", "fig", "open", "cmp", "ncols", "setb", "base", "cyc", "io", "esc", "noc"}
\* The statements that Python's grammar classes as expression statements.
ExprStmts == {"print", "open", "cmp", "ncols", "io"}
\* The names a statement loads, in evaluation order.
Loads(id) ==
    CASE id = "print" -> <<"print", "len", "__builtins__">>
    [] id = "mut" -> <<"df">>
    [] id = "fig" -> <<"go">>
    [] id = "open" -> <<"open">>
    [] id = "cmp" -> <<"len", "df">>
    [] id = "ncols" -> <<"len", "df">>
    [] id = "setb" -> <<"len", "__builtins__">>
    [] id = "base" -> <<"ValueError">>
    [] id = "cyc" -> <<>>
    [] id = "io" -> <<"df">>
    [] id = "esc" -> <<"ValueError">>
    [] id = "noc" -> <<"ValueError">>

\* compile(): the statements of a source text with the lines they start at,
\* or a SyntaxError with the line it is reported for.  A line of whitespace
\* is skipped; a statement must start in column 0.
RECURSIVE ParseLines(_)
StmtLines == [id \in Stmts |-> split(StmtText(id), "\n")]
\* The result of parsing the rest of a text, n lines further down.
Shifted(parsed, n) ==
    [parsed EXCEPT !.at = [i \in 1..Len(@) |-> @[i] + n], !.lineno = @ + n]
ParseLines(lines) ==
    Only({
        IF ls = <<>> THEN [exc |-> NoExc, stmts |-> <<>>, at |-> <<>>, lineno |-> 0,
                           text |-> <<>>]
        ELSE IF strip(ls[1]) = <<>> THEN Shifted(ParseLines(Tail(ls)), 1)
        ELSE IF ls[1][1] = " "
             THEN [exc |-> Exc("IndentationError", "unexpected indent"), stmts |-> <<>>,
                   at |-> <<>>, lineno |-> 1, text |-> strip(ls[1])]
        ELSE Only({
                 IF match = {}
                 THEN [exc |-> Exc("SyntaxError", "invalid syntax"), stmts |-> <<>>,
                       at |-> <<>>, lineno |-> 1, text |-> strip(ls[1])]
                 ELSE Only({
                          IF rest.exc # NoExc THEN [rest EXCEPT !.at = <<>>]
                          ELSE [rest EXCEPT !.stmts = <<Only(match)>> \o @,
                                            !.at = <<1>> \o @]
                          : rest \in {Shifted(ParseLines(SubSeq(ls,
                                                  Len(StmtLines[Only(match)]) + 1, Len(ls))),
                                              Len(StmtLines[Only(match)]))}})
                 : match \in {{id \in Stmts :
                                  /\ Len(StmtLines[id]) <= Len(ls)
                                  /\ SubSeq(ls, 1, Len(StmtLines[id])) = StmtLines[id]}}})
        : ls \in {lines}})
Parse(text) == ParseLines(split(text, "\n"))

\* Name resolution inside exec/eval: local scope, then globals, then the
\* mapping bound to "__builtins__" in the globals, which is SAFE_BUILTINS.
Defined(env, name) == Has(env.l, name) \/ Has(env.g, name) \/ Has(env.sb, name)
Resolve(env, name) ==
    IF Has(env.l, name) THEN Get(env.l, name)
    ELSE IF Has(env.g, name) THEN Get(env.g, name)
    ELSE Get(env.sb, name)

\* The message of the NameError for a name that no scope binds.
NotDefined(name) ==
    CASE name = "print" -> "name 'print' is not defined"
    [] name = "len" -> "name 'len' is not defined"
    [] name = "__builtins__" -> "name '__builtins__' is not defined"
    [] name = "df" -> "name 'df' is not defined"
    [] name = "go" -> "name 'go' is not defined"
    [] name = "open" -> "name 'open' is not defined"
    [] name = "ValueError" -> "name 'ValueError' is not defined"

\* One statement, run in env.  env.val is the value of an expression statement.
RunStmt(id, env) ==
    \* the names the statement loads that no scope binds
    LET missing == {i \in 1..Len(Loads(id)) : ~ Defined(env, Loads(id)[i])}
    IN  IF missing # {}
        THEN [env EXCEPT !.exc = Exc("NameError", NotDefined(Loads(id)[MinOf(missing)]))]
        ELSE CASE id = "print" ->
                 [env EXCEPT !.out = @ \o IntText(Len(env.sb)) \o <<"\n">>, !.val = None]
             [] id = "mut" ->
                 [env EXCEPT !.g = Put(@, "df", SetColumn(Get(env.g, "df"), "z", 0))]
             [] id = "fig" ->
                 [env EXCEPT !.l = Put(@, "fig", Figure(1))]
             [] id = "open" ->
                 \* the name is bound only when an earlier statement stored len under it
                 [env EXCEPT !.val = IntV(1)]
             [] id = "cmp" ->
                 [env EXCEPT !.val = BoolV(Get(env.g, "df").nrows >= 0)]
             [] id = "ncols" ->
                 [env EXCEPT !.val = IntV(Len(Get(env.g, "df").columns))]
             [] id = "setb" ->
                 [env EXCEPT !.sb = Put(@, "open", Resolve(env, "len"))]
             [] id = "base" ->
                 [env EXCEPT !.exc = Exc("BaseException", "")]
             [] id = "cyc" ->
                 [env EXCEPT !.l = Put(@, "x", CyclicList)]
             [] id = "io" ->
                 [env EXCEPT !.fx = @ \cup {[kind |-> "file_write", path |-> "out.csv"]},
                             !.val = None]
             [] id = "noc" ->
                 [env EXCEPT !.exc = Exc("ValueError", "No code to execute")]
             [] id = "esc" ->
                 \* f_back of the frame of the submitted code is the frame of
                 \* execute_code, whose local `dataframe` is the caller's object
                 [env EXCEPT !.orig = SetColumn(@, "z", 0),
                             !.fx = @ \cup {[kind |-> "reflection", path |-> "f_back"]}]

\* The statements run in order; the first that raises ends the run, and the
\* traceback names the line it starts at.
RECURSIVE RunStmts(_, _, _)
RunStmts(stmts, at, env) ==
    IF stmts = <<>> THEN env
    ELSE Only({IF e.exc # NoExc THEN [e EXCEPT !.tb.lineno = Head(at)]
               ELSE RunStmts(Tail(stmts), Tail(at), e)
               : e \in {RunStmt(Head(stmts), env)}})

\* exec(source, safe_globals, local_scope)
exec(source, env) ==
    Only({IF parsed.exc # NoExc
          THEN [env EXCEPT !.exc = parsed.exc, !.tb.lineno = parsed.lineno,
                           !.tb.text = parsed.text]
          ELSE RunStmts(parsed.stmts, parsed.at, env)
          : parsed \in {Parse(source)}})

\* The carets that the report of a SyntaxError puts under the offending
\* token: eval of a raise statement points at the keyword.
Raise == <<"r", "a", "i", "s", "e">>
carets(source) ==
    IF startswith(source, Raise) THEN [i \in 1..Len(Raise) |-> "^"] ELSE <<>>

\* eval(source, safe_globals, local_scope): the source must be one expression.
eval(source, env) ==
    Only({IF match = {}
          THEN [env EXCEPT !.exc = Exc("SyntaxError", "invalid syntax"), !.tb.lineno = 1,
                           !.tb.text = strip(source), !.tb.carets = carets(source)]
          ELSE Only({IF e.exc # NoExc THEN [e EXCEPT !.tb.lineno = 1] ELSE e
                     : e \in {RunStmt(Only(match), env)}})
          : match \in {{id \in ExprStmts : StmtText(id) = source}}})

\* str(value), as print writes it.
str(value) ==
    CASE value.kind = "None" -> <<"N","o","n","e">>
    [] value.kind = "int" -> IntText(value.v)
    [] value.kind = "bool" -> IF value.v THEN <<"T","r","u","e">> ELSE <<"F","a","l","s","e">>

\* print(result) of line 139, into the redirected stdout.
print(value, env) == [env EXCEPT !.out = @ \o str(value) \o <<"\n">>]

(***************************************************************************)
(* execute_code (lines 99-158).                                            *)
(***************************************************************************)
\* Line 101 without the strip: only the empty string counts as no code.
no_code_unstripped(text) == text = <<>>

\* Line 101: "not code.strip()".
no_code(text) == strip(text) = <<>>

\* Lines 105-116.  dataframe.copy() is a new object with the caller's
\* columns, index and cells: the environment holds it by value, and the
\* caller's object stays in env.orig.
safe_globals(df) ==
    << Item("__builtins__", BuiltinsRef),
       Item("pd", Module("pd")),
       Item("np", Module("np")),
       Item("px", Module("px")),
       Item("go", Module("go")),
       Item("df", df),
       Item("ValueError", Builtin("ValueError")),
       Item("KeyError", Builtin("KeyError")),
       Item("TypeError", Builtin("TypeError")) >>

\* The dict object a value of the scopes stands for.
Deref(value, sb) ==
    IF value = BuiltinsRef
    THEN Dict([i \in 1..Len(sb) |-> Item(StrV(sb[i].key), sb[i].val)])
    ELSE value

\* Line 149: list(scope.values()) for one of the two scopes.
scope_values(scope, sb) ==
    Only({[i \in 1..Len(vs) |-> Deref(vs[i], sb)] : vs \in {values(scope)}})
\* Line 149: list(safe_globals.values()) + list(local_scope.values())
all_values(env) == scope_values(env.g, env.sb) \o scope_values(env.l, env.sb)

\* Lines 121-142: the body of the try block, from the fresh environment.
try_body(text, env) ==
    Only({
        IF is_expression(last_line) /\ Len(code_lines) > 1
        THEN Only({
                 IF e1.exc # NoExc THEN [e1 EXCEPT !.tb.frame = 136]
                 ELSE Only({IF e2.exc # NoExc THEN [e2 EXCEPT !.tb.frame = 138]
                            ELSE print(e2.val, e2)
                            : e2 \in {eval(last_line, e1)}})
                 : e1 \in {exec(join(SubSeq(code_lines, 1, Len(code_lines) - 1)), env)}})
        ELSE Only({IF e.exc # NoExc THEN [e EXCEPT !.tb.frame = 142] ELSE e
                   : e \in {exec(text, env)}})
        : <<code_lines, last_line>> \in
              {<<ls, strip(ls[Len(ls)])>> : ls \in {split(strip(text), "\n")}}})

\* Lines 148-158, which run after the try block and outside it: the scan of
\* the bindings and the result of a successful execution.
collect(all_vals, original_df, console) ==
    Only({IF CollectRecursionError(vals)
          THEN [pc |-> "raised", result |-> NoResult,
                escaped |-> Exc("RecursionError", "maximum recursion depth exceeded")]
          ELSE [pc |-> "returned",
                result |-> ExecutionResult(_collect_figures(vals),
                                           _collect_tables(vals, original_df),
                                           strip(console), NoError),
                escaped |-> NoExc]
          : vals \in {all_vals}})

\* The state of an execution before its first statement: the environment of
\* lines 105-117, the empty stdout_buffer of line 119, the objects it shares.
NewEnv(df, sb) ==
    [g |-> safe_globals(df), l |-> <<>>, out |-> <<>>, sb |-> sb, orig |-> df,
     fx |-> {}, exc |-> NoExc, tb |-> NoTb, val |-> None]

NotRun ==
    [built |-> FALSE, exc |-> NoExc, console |-> <<>>, bindings |-> <<>>,
     globals |-> <<>>, locals |-> <<>>, fx |-> {}]

\* The whole call: what the caller gets (a returned result or a propagated
\* exception) and what the call leaves behind in the objects it shares.
execute_code(text, df, sb) ==
    IF no_code(text)
    THEN [pc |-> "returned",
          result |-> ExecutionResult(<<>>, <<>>, <<>>, ErrorText("No code to execute.")),
          escaped |-> NoExc, sb |-> sb, df |-> df, ran |-> NotRun]
    ELSE Only({
             IF env.exc # NoExc
             THEN IF IsException(env.exc)
                  THEN \* lines 144-146
                       [pc |-> "returned",
                        result |-> ExecutionResult(<<>>, <<>>, env.out, format_exc(env.exc, env.tb)),
                        escaped |-> NoExc, sb |-> env.sb, df |-> env.orig, ran |-> did]
                  ELSE [pc |-> "raised", result |-> NoResult, escaped |-> env.exc,
                        sb |-> env.sb, df |-> env.orig, ran |-> did]
             ELSE Only({[pc |-> done.pc, result |-> done.result, escaped |-> done.escaped,
                         sb |-> env.sb, df |-> env.orig, ran |-> did]
                        : done \in {collect(did.bindings, env.orig, env.out)}})
             : <<env, did>> \in
                   {<<e, [built |-> TRUE, exc |-> e.exc, console |-> e.out,
                          bindings |-> all_values(e),
                          globals |-> scope_values(e.g, e.sb),
                          locals |-> scope_values(e.l, e.sb), fx |-> e.fx]>>
                    : e \in {try_body(text, NewEnv(df, sb))}}})

(***************************************************************************)
(* The inputs.                                                             *)
(***************************************************************************)
Datasets ==
    { DataFrame(<<"a", "b">>, 2, << <<1, 2>>, <<3, 4>> >>),
      DataFrame(<<"a">>, 0, << <<>> >>) }

PrefixStmts == {"blank", "print", "mut", "open", "setb"}
RECURSIVE SeqsUpTo(_, _)
SeqsUpTo(S, n) ==
    IF n = 0 THEN {<<>>}
    ELSE LET shorter == SeqsUpTo(S, n - 1)
         IN  shorter \cup {Append(q, x) : q \in shorter, x \in S}
\* A program is up to MaxPrefix statements followed by at most one more.
Programs ==
    LET prefixes == SeqsUpTo(PrefixStmts, MaxPrefix)
    IN  prefixes \cup {Append(q, x) : q \in prefixes, x \in Stmts \cup {"blank"}}
SourceOf(program) == join([i \in 1..Len(program) |-> StmtText(program[i])])
Codes == {SourceOf(program) : program \in Programs}

(***************************************************************************)
(* The state machine: a caller that submits code, and execute_code.        *)
(***************************************************************************)
NoFirst == [pc |-> "none"]

\* llm_utils.py lines 19-21 at import, and no call made yet.
NoCall == [op |-> "none", at |-> "none"]
InitLLM ==
    /\ _chat_session = None
    /\ _current_data_summary = None
    /\ _client = None
    /\ created = 0
    /\ chats = <<>>
    /\ calls = 0
    /\ call = [t \in Threads |-> NoCall]

\* app.py lines 21-29: _ensure_session_state on a new browser session.
NoQuery ==
    [at |-> "none", user_query |-> <<>>, len0 |-> 0, first |-> None, llm_result |-> None,
     client_error |-> NoExc, verification_result |-> NoResult, final_code |-> None,
     execution_result |-> NoResult, outcome |-> "none", raised |-> NoExc]
InitApp ==
    /\ session_state = [dataset_summary |-> None, chat_history |-> <<>>,
                        dataset_uploaded |-> FALSE, last_uploaded_file |-> None,
                        csv_uploader |-> None]
    /\ query = NoQuery
    /\ steps = <<>>
    /\ queries = 0

Init ==
    /\ SAFE_BUILTINS = InitialSafeBuiltins
    /\ dataframe \in Datasets
    /\ host_files = {}
    /\ pc = "idle"
    /\ code = <<>>
    /\ result = NoResult
    /\ escaped = NoExc
    /\ ran = NotRun
    /\ df_before = dataframe
    /\ again = FALSE
    /\ first = NoFirst
    /\ InitLLM
    /\ InitApp

\* The caller (app.py lines 101 and 134) calls execute_code(c, dataframe).
Submit(c) ==
    /\ pc \in {"idle", "returned", "raised"}
    /\ pc' = "called"
    /\ code' = c
    /\ result' = NoResult
    /\ escaped' = NoExc
    /\ ran' = NotRun
    /\ df_before' = dataframe
    /\ again' = FALSE
    /\ first' = NoFirst
    /\ UNCHANGED <<SAFE_BUILTINS, dataframe, host_files, llm_vars, app_vars>>

\* The caller repeats its last call: the same code, the same dataset object.
Resubmit ==
    /\ pc \in {"returned", "raised"}
    /\ ~ again
    /\ pc' = "called"
    /\ again' = TRUE
    /\ first' = [pc |-> pc, result |-> result, escaped |-> escaped, df |-> df_before]
    /\ result' = NoResult
    /\ escaped' = NoExc
    /\ ran' = NotRun
    /\ df_before' = dataframe
    /\ UNCHANGED <<SAFE_BUILTINS, dataframe, host_files, code, llm_vars, app_vars>>

\* execute_code runs to its return or to the exception it lets through.
ExecuteCode ==
    /\ pc = "called"
    /\ \E out \in {execute_code(code, dataframe, SAFE_BUILTINS)} :
           /\ pc' = out.pc
           /\ result' = out.result
           /\ escaped' = out.escaped
           /\ ran' = out.ran
           /\ SAFE_BUILTINS' = out.sb
           /\ dataframe' = out.df
           /\ host_files' = host_files \cup
                  {e.path : e \in {x \in out.ran.fx : x.kind = "file_write"}}
    /\ UNCHANGED <<code, df_before, again, first, llm_vars, app_vars>>

Next ==
    \/ \E c \in Codes : Submit(c)
    \/ Resubmit
    \/ ExecuteCode

Spec == Init /\ [][Next]_vars

(***************************************************************************)
(* The collectors on their own: the scan of lines 148-158 applied to       *)
(* bindings of every shape up to MaxDepth.                                 *)
(***************************************************************************)
\* Tables measured against the dataset d: equal columns and shape with other
\* cells, one more row, a renamed column.
OtherCells(d) == [d EXCEPT !.data = [i \in 1..Len(@) |-> [r \in 1..d.nrows |-> 9]]]
MoreRows(d) ==
    [d EXCEPT !.nrows = @ + 1, !.data = [i \in 1..Len(@) |-> Append(@[i], 9)]]
Renamed(d) == [d EXCEPT !.columns = [i \in 1..Len(@) |-> IF i = 1 THEN "c" ELSE @[i]]]
\* Artifacts that occur only as mapping keys (objects of hashable subclasses).
KeyFigure == Figure(2)
KeyTable == DataFrame(<<"k">>, 1, << <<5>> >>)

\* A second figure, which occurs as a value like Figure(1).
OtherFigure == Figure(3)

Leaves(d) == {Figure(1), OtherFigure, d, OtherCells(d), MoreRows(d), Renamed(d), IntV(7)}

Wrap(S, d) ==
    {List(<<v>>) : v \in S} \cup {Tuple(<<v>>) : v \in S} \cup {Set(<<v>>) : v \in S}
    \cup {Dict(<<Item(StrV("k"), v)>>) : v \in S}
    \cup {Dict(<<Item(KeyFigure, v)>>) : v \in S}
    \cup {Dict(<<Item(KeyTable, v)>>) : v \in S}
    \cup {List(<<v, w>>) : v \in S, w \in {Figure(1), MoreRows(d)}}

RECURSIVE ValuesUpTo(_, _)
ValuesUpTo(depth, d) ==
    IF depth = 0 THEN Leaves(d)
    ELSE LET inner == ValuesUpTo(depth - 1, d)
         IN  inner \cup Wrap(inner, d)

\* What an execution leaves in the two scopes besides the bindings of lines
\* 105-116: a value bound in the global scope (by a function of the code
\* that declares the name global), a value bound in the local scope (by an
\* assignment), or one in each.
Scopes(d) ==
    UNION {{<<<<Item("g", v)>>, <<>>>>, <<<<>>, <<Item("x", v)>>>>}
           \cup {<<<<Item("g", v)>>, <<Item("x", w)>>>> : w \in {Figure(1), Renamed(d)}}
           \cup {<<<<Item("g", w)>>, <<Item("x", v)>>>> : w \in {Figure(1), Renamed(d)}}
           : v \in ValuesUpTo(MaxDepth, d)}

InitCollect ==
    /\ SAFE_BUILTINS = InitialSafeBuiltins
    /\ dataframe \in Datasets
    /\ host_files = {}
    /\ pc = "collecting"
    /\ code = <<>>
    /\ result = NoResult
    /\ escaped = NoExc
    /\ \E scopes \in Scopes(dataframe) :
       \E env \in {[NewEnv(dataframe, SAFE_BUILTINS)
                       EXCEPT !.g = @ \o scopes[1], !.l = scopes[2]]} :
           ran = [built |-> TRUE, exc |-> NoExc, console |-> <<>>,
                  bindings |-> all_values(env),
                  globals |-> scope_values(env.g, env.sb),
                  locals |-> scope_values(env.l, env.sb), fx |-> {}]
    /\ df_before = dataframe
    /\ again = FALSE
    /\ first = NoFirst
    /\ InitLLM
    /\ InitApp

\* Lines 148-158 on the bindings that the execution left.
Collect ==
    /\ pc = "collecting"
    /\ \E done \in {collect(ran.bindings, dataframe, ran.console)} :
           /\ pc' = done.pc
           /\ result' = done.result
           /\ escaped' = done.escaped
    /\ UNCHANGED <<SAFE_BUILTINS, dataframe, host_files, code, ran, df_before, again, first,
                   llm_vars, app_vars>>

NextCollect == Collect

SpecCollect == InitCollect /\ [][NextCollect]_vars

\* The characters of the texts that error reports are made of.
Text(str_value) ==
    CASE str_value = "No code to execute." ->
        <<"N","o"," ","c","o","d","e"," ","t","o"," ","e","x","e","c","u","t","e",".">>
    [] str_value = "No code to execute" ->
        <<"N","o"," ","c","o","d","e"," ","t","o"," ","e","x","e","c","u","t","e">>
    [] str_value = "invalid syntax" ->
        <<"i","n","v","a","l","i","d"," ","s","y","n","t","a","x">>
    [] str_value = "unexpected indent" ->
        <<"u","n","e","x","p","e","c","t","e","d"," ","i","n","d","e","n","t">>
    [] str_value = "maximum recursion depth exceeded" ->
        <<"m","a","x","i","m","u","m"," ","r","e","c","u","r","s","i","o","n"," ","d","e","p","t","h"," ","e","x","c","e","e","d","e","d">>
    [] str_value = "open" ->
        <<"o","p","e","n">>
    [] str_value = "NameError" ->
        <<"N","a","m","e","E","r","r","o","r">>
    [] str_value = "SyntaxError" ->
        <<"S","y","n","t","a","x","E","r","r","o","r">>
    [] str_value = "IndentationError" ->
        <<"I","n","d","e","n","t","a","t","i","o","n","E","r","r","o","r">>
    [] str_value = "ValueError" ->
        <<"V","a","l","u","e","E","r","r","o","r">>
    [] str_value = "RecursionError" ->
        <<"R","e","c","u","r","s","i","o","n","E","r","r","o","r">>
    [] str_value = "BaseException" ->
        <<"B","a","s","e","E","x","c","e","p","t","i","o","n">>
    [] str_value = "Verification code executed successfully but produced no output." ->
        <<"V","e","r","i","f","i","c","a","t","i","o","n"," ","c","o","d","e"," ","e","x","e","c","u","t","e","d"," ","s","u","c","c","e","s","s","f","u","l","l","y"," ","b","u","t"," ","p","r","o","d","u","c","e","d"," ","n","o"," ","o","u","t","p","u","t",".">>
    [] str_value = "Empty DataFrame" ->
        <<"E","m","p","t","y"," ","D","a","t","a","F","r","a","m","e">>
    [] str_value = "Columns: [" ->
        <<"C","o","l","u","m","n","s",":"," ","[">>
    [] str_value = "Index: []" ->
        <<"I","n","d","e","x",":"," ","[","]">>
    [] str_value = "name 'print' is not defined" ->
        <<"n","a","m","e"," ","'","p","r","i","n","t","'"," ","i","s"," ","n","o","t"," ","d","e","f","i","n","e","d">>
    [] str_value = "name 'len' is not defined" ->
        <<"n","a","m","e"," ","'","l","e","n","'"," ","i","s"," ","n","o","t"," ","d","e","f","i","n","e","d">>
    [] str_value = "name '__builtins__' is not defined" ->
        <<"n","a","m","e"," ","'","_","_","b","u","i","l","t","i","n","s","_","_","'"," ","i","s"," ","n","o","t"," ","d","e","f","i","n","e","d">>
    [] str_value = "name 'df' is not defined" ->
        <<"n","a","m","e"," ","'","d","f","'"," ","i","s"," ","n","o","t"," ","d","e","f","i","n","e","d">>
    [] str_value = "name 'go' is not defined" ->
        <<"n","a","m","e"," ","'","g","o","'"," ","i","s"," ","n","o","t"," ","d","e","f","i","n","e","d">>
    [] str_value = "name 'open' is not defined" ->
        <<"n","a","m","e"," ","'","o","p","e","n","'"," ","i","s"," ","n","o","t"," ","d","e","f","i","n","e","d">>
    [] str_value = "name 'ValueError' is not defined" ->
        <<"n","a","m","e"," ","'","V","a","l","u","e","E","r","r","o","r","'"," ","i","s"," ","n","o","t"," ","d","e","f","i","n","e","d">>
    [] str_value = "Traceback (most recent call last):\n" ->
        <<"T","r","a","c","e","b","a","c","k"," ","(","m","o","s","t"," ","r","e","c","e","n","t"," ","c","a","l","l"," ","l","a","s","t",")",":","\n">>
    [] str_value = "  File \"code_executor.py\", line " ->
        <<" "," ","F","i","l","e"," ","\"","c","o","d","e","_","e","x","e","c","u","t","o","r",".","p","y","\"",","," ","l","i","n","e"," ">>
    [] str_value = ", in execute_code\n" ->
        <<","," ","i","n"," ","e","x","e","c","u","t","e","_","c","o","d","e","\n">>
    [] str_value = "  File \"<string>\", line " ->
        <<" "," ","F","i","l","e"," ","\"","<","s","t","r","i","n","g",">","\"",","," ","l","i","n","e"," ">>
    [] str_value = ", in <module>\n" ->
        <<","," ","i","n"," ","<","m","o","d","u","l","e",">","\n">>
    [] str_value = "             ^^^^^^^^^^^^^^^^^^^^^^^^^^^^^^^^^^^^^^^^^^\n" ->
        <<" "," "," "," "," "," "," "," "," "," "," "," "," ","^","^","^","^","^","^","^","^","^","^","^","^","^","^","^","^","^","^","^","^","^","^","^","^","^","^","^","^","^","^","^","^","^","^","^","^","^","^","^","^","^","^","\n">>
    [] str_value = "" -> <<>>
\* The source of the lines of execute_code that call exec and eval.
FrameSource(frame) ==
    CASE frame = 136 ->
        <<"e","x","e","c","(","'","\\","n","'",".","j","o","i","n","(","c","o","d","e","_","l","i","n","e","s","[",":","-","1","]",")",","," ","s","a","f","e","_","g","l","o","b","a","l","s",","," ","l","o","c","a","l","_","s","c","o","p","e",")">>
    [] frame = 138 ->
        <<"r","e","s","u","l","t"," ","="," ","e","v","a","l","(","l","a","s","t","_","l","i","n","e",","," ","s","a","f","e","_","g","l","o","b","a","l","s",","," ","l","o","c","a","l","_","s","c","o","p","e",")">>
    [] frame = 142 ->
        <<"e","x","e","c","(","c","o","d","e",","," ","s","a","f","e","_","g","l","o","b","a","l","s",","," ","l","o","c","a","l","_","s","c","o","p","e",")">>
Indent == <<" ", " ", " ", " ">>
\* The text of ExecutionResult.error: the fixed text of line 102, or the
\* report of traceback.format_exc (Python 3.11): the frame of execute_code
\* with its source line (and carets under the call of eval), the place in
\* the submitted source (for a syntax error with the offending line), and
\* at the end the class and the message of the exception.
error_text(error) ==
    IF error.kind = "None" THEN <<>>
    ELSE IF error.kind = "text" THEN Text(error.msg)
    ELSE Text("Traceback (most recent call last):\n")
         \o Text("  File \"code_executor.py\", line ") \o IntText(error.frame)
         \o Text(", in execute_code\n")
         \o Indent \o FrameSource(error.frame) \o <<"\n">>
         \o (IF error.frame = 138
             THEN Text("             ^^^^^^^^^^^^^^^^^^^^^^^^^^^^^^^^^^^^^^^^^^\n")
             ELSE <<>>)
         \o Text("  File \"<string>\", line ") \o IntText(error.lineno)
         \o (IF error.exc \in {"SyntaxError", "IndentationError"}
             THEN <<"\n">> \o Indent \o error.text \o <<"\n">>
                  \o (IF error.carets # <<>> THEN Indent \o error.carets \o <<"\n">>
                      ELSE <<>>)
             ELSE Text(", in <module>\n"))
         \o Text(error.exc) \o <<":", " ">> \o Text(error.msg) \o <<"\n">>
\* phrase in text
in_text(phrase, text) ==
    \E i \in 1..(Len(text) - Len(phrase) + 1) : SubSeq(text, i, i + Len(phrase) - 1) = phrase

(***************************************************************************)
(* llm_utils.py: the chat session kept in module-level globals.            *)
(***************************************************************************)
\* The messages handed to chat.send_message (lines 164, 168 and 208).
ContextMessage(data_summary) == [kind |-> "context", data_summary |-> data_summary]
RequestMessage(user_query) == [kind |-> "request", user_query |-> user_query]
FeedbackMessage(execution_output) ==
    [kind |-> "feedback", execution_output |-> execution_output]

\* The object that _client.chats.create returns (line 151), and the messages
\* delivered on every chat object so far.  send_message delivers its message
\* when it returns; a send_message that raises delivers nothing.
Chat(id) == [kind |-> "chat", id |-> id]
Delivered(histories, chat, message) == [histories EXCEPT ![chat.id] = Append(@, message)]
Client == [kind |-> "client"]


\* response.text: text that is no JSON, a JSON number, or a JSON object.
NotJson == [json |-> "invalid"]
JsonNumber == [json |-> "number"]
JsonObject(items) == [json |-> "object", items |-> items]

\* Lines 28-35.
LLMResponse(analysis, code_text, suggestions, needs_verification) ==
    [analysis |-> analysis, code |-> code_text, suggestions |-> suggestions,
     needs_verification |-> needs_verification]

\* Lines 61-90: the fence of a markdown block and the import lines of the
\* pre-loaded modules are removed.
\* The backquote, which a TLA+ string cannot hold, is written "~" here.
Fence == <<"~", "~", "~">>
Chars(str_value) ==
    CASE str_value = "import pandas" -> <<"i","m","p","o","r","t"," ","p","a","n","d","a","s">>
    [] str_value = "import numpy" -> <<"i","m","p","o","r","t"," ","n","u","m","p","y">>
    [] str_value = "import plotly" -> <<"i","m","p","o","r","t"," ","p","l","o","t","l","y">>
    [] str_value = "from pandas" -> <<"f","r","o","m"," ","p","a","n","d","a","s">>
    [] str_value = "from numpy" -> <<"f","r","o","m"," ","n","u","m","p","y">>
    [] str_value = "from plotly" -> <<"f","r","o","m"," ","p","l","o","t","l","y">>
ImportPrefixes ==
    {"import pandas", "import numpy", "import plotly",
     "from pandas", "from numpy", "from plotly"}
RECURSIVE filtered_lines(_)
filtered_lines(lines) ==
    Only({IF ls = <<>> THEN <<>>
          ELSE (IF \E prefix \in ImportPrefixes : startswith(strip(ls[1]), Chars(prefix))
                THEN <<>> ELSE <<ls[1]>>)
               \o filtered_lines(Tail(ls))
          : ls \in {lines}})
unfenced(code_text) ==
    IF startswith(code_text, Fence)
    THEN Only({join(IF ls # <<>> /\ strip(ls[Len(ls)]) = Fence
                    THEN SubSeq(ls, 1, Len(ls) - 1) ELSE ls)
               : ls \in {Tail(split(code_text, "\n"))}})
    ELSE code_text
_extract_code_from_markdown(code_text) ==
    join(filtered_lines(split(unfenced(strip(code_text)), "\n")))

\* Lines 93-115.  A payload that is no container fails the "key not in
\* payload" test with a TypeError.
_ensure_response_shape(payload) ==
    IF payload.json = "number"
    THEN [raised |-> Exc("TypeError", "argument of type 'int' is not iterable"),
          value |-> None]
    ELSE IF \E key \in {"analysis", "code", "suggestions"} : ~ Has(payload.items, key)
    THEN [raised |-> Exc("LLMResponseError", "LLM response missing expected keys"),
          value |-> None]
    ELSE [raised |-> NoExc,
          value |-> LLMResponse(strip(Get(payload.items, "analysis")),
                                _extract_code_from_markdown(strip(Get(payload.items, "code"))),
                                strip(Get(payload.items, "suggestions")),
                                IF Has(payload.items, "needs_verification")
                                THEN Get(payload.items, "needs_verification") ELSE FALSE)]

\* Lines 171-178 and 211-218: json.loads and the shape check.
parse_response(response) ==
    IF response.json = "invalid"
    THEN [raised |-> Exc("LLMResponseError", "Failed to parse JSON from LLM response."),
          value |-> None]
    ELSE _ensure_response_shape(response)

\* What a call meets outside the module: the API key (argument or
\* environment, lines 135-136), the system prompt file (line 44), and for
\* each call of the client the exception it raises, or NoExc and the response.
Fine(response) ==
    [api_key |-> TRUE, system_prompt |-> TRUE, create |-> NoExc, context |-> NoExc,
     request |-> NoExc, response |-> response]
APIError == Exc("APIError", "503 UNAVAILABLE")
ConnectionError == Exc("ConnectionError", "connection reset")
\* The classes caught by "except (LLMResponseError, EnvironmentError)".
IsEnvironmentError(exc) ==
    exc.type \in {"EnvironmentError", "FileNotFoundError", "ConnectionError"}

\* The module globals, and the chat objects they refer to, as one value.
Globals(chat_session, current_data_summary, client, n, histories) ==
    [chat_session |-> chat_session, current_data_summary |-> current_data_summary,
     client |-> client, created |-> n, chats |-> histories]

\* The names of the module and what they are bound to.
Names(M) ==
    [chat_session |-> M.chat_session, current_data_summary |-> M.current_data_summary,
     client |-> M.client, created |-> M.created]

\* A call of a function of the module by one thread.  at is the blocking call
\* the thread waits in ("prompt", "context", "request", "feedback") or "done";
\* world is what the call has met outside the module so far; before and left
\* are the names of the module when the call started and when it ran last;
\* new is the chat object the call created, session the one it handed its
\* request or feedback to and seen the messages delivered on that one until
\* then; sent are the messages handed to send_message.
Call(op, M) ==
    [op |-> op, at |-> "done", user_query |-> <<>>, data_summary |-> <<>>,
     reset_chat |-> FALSE, execution_output |-> <<>>, world |-> Fine(NotJson),
     before |-> Names(M), left |-> Names(M), new |-> None, session |-> None,
     seen |-> <<>>, raised |-> NoExc, value |-> None, sent |-> <<>>]
\* The thread goes on to a blocking call, or the call ends by raise or return.
Waits(M, c, at) == [M |-> M, c |-> [c EXCEPT !.at = at, !.left = Names(M)]]
Raises(M, c, exc) ==
    [M |-> M, c |-> [c EXCEPT !.at = "done", !.left = Names(M), !.raised = exc]]
Returns(M, c, value) ==
    [M |-> M, c |-> [c EXCEPT !.at = "done", !.left = Names(M), !.value = value]]
NoneHasNoSendMessage ==
    Exc("AttributeError", "'NoneType' object has no attribute 'send_message'")

\* Lines 130-133 without the strip: only the empty string is rejected.
validate_unstripped(user_query, data_summary) ==
    IF user_query = <<>> THEN Exc("ValueError", "User query must not be empty.")
    ELSE IF data_summary = <<>> THEN Exc("ValueError", "Data summary must not be empty.")
    ELSE NoExc
\* Lines 130-133.
validate(user_query, data_summary) ==
    IF strip(user_query) = <<>> THEN Exc("ValueError", "User query must not be empty.")
    ELSE IF strip(data_summary) = <<>>
         THEN Exc("ValueError", "Data summary must not be empty.")
    ELSE NoExc

\* Line 147 without the comparison of the summaries.
needs_new_session_any_summary(M, data_summary, reset_chat) ==
    reset_chat \/ M.chat_session = None
\* Line 147.
needs_new_session(M, data_summary, reset_chat) ==
    reset_chat \/ M.chat_session = None \/ M.current_data_summary # data_summary

\* Lines 168-169 and 208-209: the global _chat_session is read and the
\* message is handed to send_message of that object.
hand_over(M, c, message, at) ==
    IF M.chat_session = None THEN Raises(M, c, NoneHasNoSendMessage)
    ELSE Waits(M, [c EXCEPT !.session = M.chat_session,
                            !.seen = M.chats[M.chat_session.id],
                            !.sent = Append(@, message)], at)

\* Lines 169-178 and 209-218: send_message returns the response, which is
\* parsed, or it raises.
receive(M, c, message, world) ==
    IF world.request # NoExc
    THEN Raises(M, [c EXCEPT !.world.request = world.request], world.request)
    ELSE Only({IF parsed.raised # NoExc THEN Raises(M1, c1, parsed.raised)
               ELSE Returns(M1, c1, parsed.value)
               : <<M1, c1, parsed>> \in
                     {<<[M EXCEPT !.chats = Delivered(@, c.session, message)],
                        [c EXCEPT !.world.response = world.response],
                        parse_response(world.response)>>}})

\* Lines 118-148 or 118-169: ask_llm from the call to its first blocking call,
\* which is the read of the system prompt (line 47, called from line 148)
\* when a new session is needed, else send_message of line 169.
ask_llm(M, user_query, data_summary, reset_chat, world) ==
    Only({
        IF validate(user_query, data_summary) # NoExc
        THEN Raises(M, c, validate(user_query, data_summary))
        ELSE IF ~ world.api_key
        THEN Raises(M, [c EXCEPT !.world.api_key = FALSE],
                    Exc("EnvironmentError",
                        "GEMINI_API_KEY is not set. Please configure your Gemini API key."))
        ELSE Only({
                 IF needs_new_session(M1, data_summary, reset_chat)
                 THEN IF ~ world.system_prompt
                      THEN Raises(M1, [c EXCEPT !.world.system_prompt = FALSE],
                                  Exc("FileNotFoundError", "System prompt file not found"))
                      ELSE Waits(M1, c, "prompt")
                 ELSE hand_over(M1, c, RequestMessage(user_query), "request")
                 : M1 \in {[M EXCEPT !.client = IF @ = None THEN Client ELSE @]}})
        : c \in {[Call("ask_llm", M) EXCEPT !.user_query = user_query,
                                            !.data_summary = data_summary,
                                            !.reset_chat = reset_chat]}})

\* Lines 148-165: the system prompt is read; the new session and the summary
\* are stored in the globals, and the context message is handed to
\* send_message of the object that _chat_session names.
ask_llm_line_148(M, c, world) ==
    IF world.create # NoExc
    THEN Raises(M, [c EXCEPT !.world.create = world.create], world.create)
    ELSE Only({Waits([M EXCEPT !.chat_session = chat, !.created = @ + 1,
                               !.chats = Append(@, <<>>),
                               !.current_data_summary = c.data_summary],
                     [c EXCEPT !.new = chat,
                               !.sent = Append(@, ContextMessage(c.data_summary))],
                     "context")
               : chat \in {Chat(M.created + 1)}})

\* Lines 165-169: send_message of line 165 returns or raises; then the
\* request is handed to the object that _chat_session names now.
ask_llm_line_165(M, c, world) ==
    IF world.context # NoExc
    THEN Raises(M, [c EXCEPT !.world.context = world.context], world.context)
    ELSE hand_over([M EXCEPT !.chats = Delivered(@, c.new, ContextMessage(c.data_summary))],
                   c, RequestMessage(c.user_query), "request")

\* Lines 169-178.
ask_llm_line_169(M, c, world) == receive(M, c, RequestMessage(c.user_query), world)

\* Lines 181-187.
reset_chat_session(M) ==
    [M EXCEPT !.chat_session = None, !.current_data_summary = None]

\* Lines 207-209 without the check of lines 204-205: the call of send_message
\* on None raises AttributeError.
send_execution_results_unchecked(M, execution_output) ==
    hand_over(M, [Call("send_execution_results", M)
                     EXCEPT !.execution_output = execution_output],
              FeedbackMessage(execution_output), "feedback")
\* Lines 190-209: send_execution_results from the call to send_message.
send_execution_results(M, execution_output) ==
    IF M.chat_session = None
    THEN Raises(M, [Call("send_execution_results", M)
                       EXCEPT !.execution_output = execution_output],
                Exc("RuntimeError", "No active chat session. Call ask_llm first."))
    ELSE hand_over(M, [Call("send_execution_results", M)
                          EXCEPT !.execution_output = execution_output],
                   FeedbackMessage(execution_output), "feedback")

\* Lines 209-218.
send_execution_results_line_209(M, c, world) ==
    receive(M, c, FeedbackMessage(c.execution_output), world)

\* The blocking call that a thread waits in returns or raises, as the world
\* has it, and the thread runs on.
resume(M, c, world) ==
    CASE c.at = "prompt" -> ask_llm_line_148(M, c, world)
    [] c.at = "context" -> ask_llm_line_165(M, c, world)
    [] c.at = "request" -> ask_llm_line_169(M, c, world)
    [] c.at = "feedback" -> send_execution_results_line_209(M, c, world)

(***************************************************************************)
(* The callers of llm_utils: any sequence of its three functions.          *)
(***************************************************************************)
Queries == {<<>>, <<" ">>, <<"q">>}
Summaries == {<<>>, <<"\n">>, <<"s">>, <<"t">>}

\* A response with the three expected keys, whose texts come with whitespace
\* around them, and with needs_verification unless flag is "absent".
Payload(code_text, flag) ==
    JsonObject(<<Item("analysis", <<" ", "a", " ">>), Item("code", code_text),
                 Item("suggestions", <<"s", "\n">>)>>
               \o (IF flag = "absent" THEN <<>>
                   ELSE <<Item("needs_verification", flag = "true")>>))
Flags == {"true", "false", "absent"}
Responses(codes, flags) ==
    {NotJson, JsonNumber, JsonObject(<<Item("analysis", <<"a">>)>>)}
    \cup {Payload(c, flag) : c \in codes, flag \in flags}
\* What the start of a call meets: the API key and the system prompt file.
StartWorlds ==
    {Fine(NotJson), [Fine(NotJson) EXCEPT !.api_key = FALSE],
     [Fine(NotJson) EXCEPT !.system_prompt = FALSE]}
\* What a blocking call meets: the model service answers, or the call fails.
Worlds(responses) ==
    {Fine(r) : r \in responses}
    \cup {[Fine(NotJson) EXCEPT !.create = APIError],
          [Fine(NotJson) EXCEPT !.context = APIError],
          [Fine(NotJson) EXCEPT !.request = APIError],
          [Fine(NotJson) EXCEPT !.request = ConnectionError]}
LLMWorlds == Worlds(Responses({StmtText("print")}, Flags))
\* The arguments of ask_llm and what the start of the call meets.  A blank
\* query is tried with a summary and with a blank one, an empty and a blank
\* summary with a query, each with and without reset_chat.
AskInputs ==
    {in \in [user_query : Queries, data_summary : Summaries, reset_chat : BOOLEAN,
             world : StartWorlds] :
        \/ validate(in.user_query, in.data_summary) = NoExc
        \/ /\ in.world = Fine(NotJson)
           /\ in.user_query = <<>> => in.data_summary = <<"s">>
           /\ in.data_summary = <<>> => in.user_query = <<"q">>}

llm_utils == Globals(_chat_session, _current_data_summary, _client, created, chats)
\* The globals take the value M.
Stored(M) ==
    /\ _chat_session' = M.chat_session
    /\ _current_data_summary' = M.current_data_summary
    /\ _client' = M.client
    /\ created' = M.created
    /\ chats' = M.chats
Idle(t) == call[t].at \in {"none", "done"}

AskLlm(t, inputs) ==
    /\ Idle(t)
    /\ calls < MaxCalls
    /\ \E in \in inputs :
       \E out \in {ask_llm(llm_utils, in.user_query, in.data_summary, in.reset_chat, in.world)} :
           /\ Stored(out.M)
           /\ call' = [call EXCEPT ![t] = out.c]
    /\ calls' = calls + 1
    /\ UNCHANGED <<SAFE_BUILTINS, dataframe, host_files, pc, exec_vars, app_vars>>

ResetChatSession(t) ==
    /\ Idle(t)
    /\ \E M \in {reset_chat_session(llm_utils)} :
           /\ Stored(M)
           /\ call' = [call EXCEPT ![t] =
                          [Call("reset_chat_session", llm_utils) EXCEPT !.left = Names(M)]]
    /\ UNCHANGED <<SAFE_BUILTINS, dataframe, host_files, pc, exec_vars, app_vars, calls>>

SendExecutionResults(t) ==
    /\ Idle(t)
    /\ calls < MaxCalls
    /\ \E execution_output \in {<<"2", "8">>} :
       \E out \in {send_execution_results(llm_utils, execution_output)} :
           /\ Stored(out.M)
           /\ call' = [call EXCEPT ![t] = out.c]
    /\ calls' = calls + 1
    /\ UNCHANGED <<SAFE_BUILTINS, dataframe, host_files, pc, exec_vars, app_vars>>

\* The blocking call that thread t waits in returns or raises.
Resume(t, worlds) ==
    /\ ~ Idle(t)
    /\ \E world \in worlds : \E out \in {resume(llm_utils, call[t], world)} :
           /\ Stored(out.M)
           /\ call' = [call EXCEPT ![t] = out.c]
    /\ UNCHANGED <<SAFE_BUILTINS, dataframe, host_files, pc, exec_vars, app_vars, calls>>

NextLLM ==
    \/ \E t \in Threads : AskLlm(t, AskInputs)
    \/ \E t \in Threads : ResetChatSession(t)
    \/ \E t \in Threads : SendExecutionResults(t)
    \/ \E t \in Threads : Resume(t, LLMWorlds)

\* The dataset of the caller of execute_code plays no part here.
InitModule == Init /\ dataframe = DataFrame(<<"a", "b">>, 2, << <<1, 2>>, <<3, 4>> >>)
SpecLLM == InitModule /\ [][NextLLM]_vars

(***************************************************************************)
(* app.py: the Streamlit script.  Every user event runs main() once.       *)
(***************************************************************************)
\* The value of the file_uploader widget (line 168).
UploadedFile(name) == [kind |-> "UploadedFile", name |-> name]
\* data_analysis.get_summary: the summary of a file that parses (its text,
\* built by _build_text_summary, differs from file to file), or the exception
\* of one that no encoding reads.
DatasetSummary(text, df) == [kind |-> "DatasetSummary", text |-> text, dataframe |-> df]
Files == {"a.csv", "b.csv", "bad.csv"}
get_summary(uploaded_file) ==
    CASE uploaded_file.name = "a.csv" ->
             [raised |-> NoExc,
              value |-> DatasetSummary(<<"s">>, DataFrame(<<"a", "b">>, 2, << <<1, 2>>, <<3, 4>> >>))]
    [] uploaded_file.name = "b.csv" ->
             [raised |-> NoExc,
              value |-> DatasetSummary(<<"t">>, DataFrame(<<"a">>, 0, << <<>> >>))]
    [] uploaded_file.name = "bad.csv" ->
             [raised |-> Exc("ValueError",
                            "Unable to read CSV file with any of the supported encodings"),
              value |-> None]

\* The id that every append computes: len(st.session_state.chat_history),
\* here for all of them 0.
next_id_zero(chat_history) == 0
\* Lines 74, 87, 94, 107, 129, 141: len(st.session_state.chat_history).
next_id(chat_history) == Len(chat_history)

\* The messages of the chat history.
UserMessage(content, id) == [role |-> "user", content |-> content, id |-> id]
ErrorMessage(text, detail, id) ==
    [role |-> "assistant", error |-> [text |-> text, detail |-> detail], id |-> id]
LoadedMessage == [role |-> "assistant", analysis |-> "Dataset loaded successfully!", id |-> 0]

\* Lines 170-199: the upload block of the sidebar.  returned is TRUE when
\* main returns at line 199.
upload_block(ss, M) ==
    IF /\ ss.csv_uploader # None
       /\ (~ ss.dataset_uploaded \/ ss.last_uploaded_file # StrV(ss.csv_uploader.name))
    THEN Only({IF summary.raised # NoExc
               THEN [ss |-> [ss EXCEPT !.dataset_uploaded = FALSE], M |-> M,
                     returned |-> TRUE]
               ELSE [ss |-> [ss EXCEPT !.dataset_summary = summary.value,
                                       !.dataset_uploaded = TRUE,
                                       !.last_uploaded_file = StrV(ss.csv_uploader.name),
                                       !.chat_history = <<LoadedMessage>>],
                     M |-> reset_chat_session(M), returned |-> FALSE]
               : summary \in {get_summary(ss.csv_uploader)}})
    ELSE [ss |-> ss, M |-> M, returned |-> FALSE]

\* The user picks a file in the uploader, or removes it, and the script runs.
\* query and steps describe the call of _process_user_query in the current
\* run of the script: a run without a submitted prompt makes no such call.
PickFile(name) ==
    /\ pc = "idle"
    /\ \E run \in {upload_block([session_state EXCEPT !.csv_uploader = UploadedFile(name)],
                                llm_utils)} :
           /\ session_state' = run.ss
           /\ _chat_session' = run.M.chat_session
           /\ _current_data_summary' = run.M.current_data_summary
    /\ query' = NoQuery
    /\ steps' = <<>>
    /\ UNCHANGED <<SAFE_BUILTINS, dataframe, host_files, pc, exec_vars, _client, created,
                   chats, calls, call, queries>>

RemoveFile ==
    /\ pc = "idle"
    /\ session_state.csv_uploader # None
    /\ \E run \in {upload_block([session_state EXCEPT !.csv_uploader = None], llm_utils)} :
           /\ session_state' = run.ss
           /\ _chat_session' = run.M.chat_session
           /\ _current_data_summary' = run.M.current_data_summary
    /\ query' = NoQuery
    /\ steps' = <<>>
    /\ UNCHANGED <<SAFE_BUILTINS, dataframe, host_files, pc, exec_vars, _client, created,
                   chats, calls, call, queries>>

\* Lines 202-222: the button is shown when a dataset is loaded; a click
\* resets the session and the history, and st.rerun runs the script again.
ClearHistory ==
    /\ pc = "idle"
    /\ \E run \in {upload_block(session_state, llm_utils)} :
           /\ ~ run.returned
           /\ run.ss.dataset_summary # None
           /\ \E again_run \in {upload_block([run.ss EXCEPT !.chat_history = <<>>],
                                             reset_chat_session(run.M))} :
                  /\ session_state' = again_run.ss
                  /\ _chat_session' = again_run.M.chat_session
                  /\ _current_data_summary' = again_run.M.current_data_summary
    /\ query' = NoQuery
    /\ steps' = <<>>
    /\ UNCHANGED <<SAFE_BUILTINS, dataframe, host_files, pc, exec_vars, _client, created,
                   chats, calls, call, queries>>

\* The calls that _process_user_query makes, as entries of steps: the
\* function, its argument, and what it returned (None when it raised).
Step(fn, arg, value) == [fn |-> fn, arg |-> arg, value |-> value]

\* table.to_string() (line 117) for cells and names of one character: a
\* header line of the column names, then one line per row that starts with
\* the row's index; a table without rows is described in three lines.
RECURSIVE spaced(_)
spaced(texts) ==
    IF texts = <<>> THEN <<>> ELSE <<" ", " ">> \o Head(texts) \o spaced(Tail(texts))
RECURSIVE listed(_)
listed(names) ==
    IF names = <<>> THEN <<>>
    ELSE <<Head(names)>> \o (IF Len(names) > 1 THEN <<",", " ">> ELSE <<>>)
         \o listed(Tail(names))
to_string(table) ==
    IF table.nrows = 0
    THEN join(<<Text("Empty DataFrame"),
                Text("Columns: [") \o listed(table.columns) \o <<"]">>,
                Text("Index: []")>>)
    ELSE join([line \in 1..(table.nrows + 1) |->
                 IF line = 1
                 THEN <<" ">> \o spaced([c \in 1..Len(table.columns) |-> <<table.columns[c]>>])
                 ELSE IntText(line - 2)
                      \o spaced([c \in 1..Len(table.columns) |->
                                    IntText(table.data[c][line - 1])])])

\* Lines 83-99: what follows the outcome of ask_llm.
after_ask(ss, q, out) ==
    IF out.raised # NoExc
    THEN [ss |-> [ss EXCEPT !.chat_history =
                     Append(@, ErrorMessage(IF out.raised.type = "LLMResponseError"
                                               \/ IsEnvironmentError(out.raised)
                                            THEN "Error"
                                            ELSE "Failed to contact the language model",
                                            out.raised, next_id(@)))],
          query |-> [q EXCEPT !.at = "done", !.client_error = out.raised,
                              !.outcome = "returned"],
          pc |-> "idle"]
    ELSE [ss |-> ss,
          query |-> [q EXCEPT !.first = out.value, !.llm_result = out.value],
          pc |-> IF out.value.needs_verification THEN "verify" ELSE "final"]

\* Lines 111-120: what the verification hands back to the model.
verification_output(verification_result) ==
    IF verification_result.stdout # <<>> THEN verification_result.stdout
    ELSE IF verification_result.tables # <<>> THEN to_string(verification_result.tables[1])
    ELSE Text("Verification code executed successfully but produced no output.")

\* Lines 101-109: what follows the execution of the verification code.  An
\* exception that execute_code lets through ends _process_user_query.
after_verification(ss, q, out) ==
    IF out.pc = "raised"
    THEN [ss |-> ss, query |-> [q EXCEPT !.at = "done", !.outcome = "raised",
                                         !.raised = out.escaped],
          pc |-> "idle"]
    ELSE IF out.result.error # NoError
    THEN [ss |-> [ss EXCEPT !.chat_history =
                     Append(@, ErrorMessage("Verification failed", out.result.error,
                                            next_id(@)))],
          query |-> [q EXCEPT !.at = "done", !.outcome = "returned",
                              !.verification_result = out.result],
          pc |-> "idle"]
    ELSE [ss |-> ss, query |-> [q EXCEPT !.verification_result = out.result], pc |-> "send"]

\* After the follow-up response a second verification would start whenever
\* the response is flagged.
next_after_feedback_flagged(llm_result) ==
    IF llm_result.needs_verification THEN "verify" ELSE "final"
\* Lines 124-134: after the follow-up response the final code is executed.
next_after_feedback(llm_result) == "final"

\* Lines 122-131: what follows the outcome of send_execution_results.
after_feedback(ss, q, out) ==
    IF out.raised # NoExc
    THEN IF out.raised.type = "LLMResponseError" \/ IsEnvironmentError(out.raised)
         THEN [ss |-> [ss EXCEPT !.chat_history =
                          Append(@, ErrorMessage("Error processing verification results",
                                                 out.raised, next_id(@)))],
               query |-> [q EXCEPT !.at = "done", !.client_error = out.raised,
                                   !.outcome = "returned"],
               pc |-> "idle"]
         ELSE [ss |-> ss,
               query |-> [q EXCEPT !.at = "done", !.client_error = out.raised,
                                   !.outcome = "raised", !.raised = out.raised],
               pc |-> "idle"]
    ELSE [ss |-> ss, query |-> [q EXCEPT !.llm_result = out.value],
          pc |-> next_after_feedback(out.value)]

\* Lines 144-149: the error shown for the final execution.
execution_error(error) ==
    IF in_text(Text("No code to execute"), error_text(error))
    THEN [text |-> "The AI didn't generate executable code for this request.",
          detail |-> NoError]
    ELSE [text |-> "Code execution failed", detail |-> error]

\* Lines 137-154: the assistant message of the final execution.
assistant_message(llm_result, execution_result, id) ==
    [role |-> "assistant", analysis |-> llm_result.analysis,
     suggestions |-> llm_result.suggestions, id |-> id]
    @@ (IF execution_result.error # NoError
        THEN [error |-> execution_error(execution_result.error)]
        ELSE (IF execution_result.figures # <<>>
              THEN [figures |-> execution_result.figures] ELSE [x \in {} |-> x])
             @@ (IF execution_result.tables # <<>>
                 THEN [tables |-> execution_result.tables] ELSE [x \in {} |-> x]))

\* Lines 134-156: what follows the final execution.
after_final(ss, q, out) ==
    IF out.pc = "raised"
    THEN [ss |-> ss, query |-> [q EXCEPT !.at = "done", !.outcome = "raised",
                                         !.raised = out.escaped],
          pc |-> "idle"]
    ELSE [ss |-> [ss EXCEPT !.chat_history =
                     Append(@, assistant_message(q.llm_result, out.result, next_id(@)))],
          query |-> [q EXCEPT !.at = "done", !.outcome = "returned",
                              !.execution_result = out.result],
          pc |-> "idle"]

\* The inputs of the app: the prompt typed into the chat input, the code of
\* the model's responses, and what each call of the model client meets.
Prompts == {<<"q">>, <<" ">>}
FencedBlank == Fence \o <<"\n", " ", "\n">> \o Fence
AppCodes ==
    {<<>>, FencedBlank, StmtText("print"), StmtText("open"), StmtText("noc"),
     StmtText("cyc"), StmtText("fig"), StmtText("mut")}
AppWorlds == Worlds(Responses(AppCodes, {"true", "false"}))
FollowUpCodes == {FencedBlank, StmtText("print"), StmtText("noc")}
FollowUpWorlds == Worlds(Responses(FollowUpCodes, {"true", "false"}))

\* The session whose state is session_state runs its script in thread "A".
\* The caller takes the outcome of a call that is over, and the frame of the
\* call is gone.
Taken(c) == IF c.at = "done" THEN NoCall ELSE c
\* What follows a step of ask_llm: the thread waits again, or ask_llm is over
\* and _process_user_query goes on (lines 83-99).
AfterAskStep(ss, q, out) ==
    IF out.c.at = "done"
    THEN \E after \in {after_ask(ss, q, out.c)} :
             /\ session_state' = after.ss
             /\ query' = after.query
             /\ pc' = after.pc
             /\ steps' = <<Step("ask_llm", q.user_query, out.c.value)>>
    ELSE /\ session_state' = ss
         /\ query' = q
         /\ pc' = "ask_llm"
         /\ steps' = <<>>

\* Lines 234-242 and 63-82: a prompt is submitted (the input is enabled once
\* a dataset is uploaded), the script runs from the top, and
\* _process_user_query runs up to the first blocking call of ask_llm.
StartQuery(prompt, world) ==
    /\ pc = "idle"
    /\ Idle("A")
    /\ queries < MaxQueries
    /\ session_state.dataset_uploaded
    /\ \E run \in {upload_block(session_state, llm_utils)} :
           /\ ~ run.returned
           /\ run.ss.dataset_uploaded
           /\ IF run.ss.dataset_summary = None
              THEN /\ session_state' = run.ss
                   /\ query' = [NoQuery EXCEPT !.at = "done", !.user_query = prompt,
                                               !.len0 = Len(run.ss.chat_history),
                                               !.outcome = "returned"]
                   /\ pc' = "idle"
                   /\ steps' = <<>>
                   /\ Stored(run.M)
                   /\ UNCHANGED call
              ELSE \E out \in {ask_llm(run.M, prompt, run.ss.dataset_summary.text, FALSE,
                                       world)} :
                   \E history \in {Append(run.ss.chat_history,
                                          UserMessage(prompt,
                                                      next_id(run.ss.chat_history)))} :
                       /\ AfterAskStep([run.ss EXCEPT !.chat_history = history],
                                       [NoQuery EXCEPT !.at = "run",
                                                       !.user_query = prompt,
                                                       !.len0 = Len(run.ss.chat_history)],
                                       out)
                       /\ Stored(out.M)
                       /\ call' = [call EXCEPT !["A"] = Taken(out.c)]
    /\ queries' = queries + 1
    /\ UNCHANGED <<SAFE_BUILTINS, dataframe, host_files, exec_vars, calls>>

\* The blocking call of ask_llm returns or raises, and the thread runs on.
AskLlmResumes(world) ==
    /\ pc = "ask_llm"
    /\ \E out \in {resume(llm_utils, call["A"], world)} :
           /\ AfterAskStep(session_state, query, out)
           /\ Stored(out.M)
           /\ call' = [call EXCEPT !["A"] = Taken(out.c)]
    /\ UNCHANGED <<SAFE_BUILTINS, dataframe, host_files, exec_vars, calls, queries>>

\* Line 101: the verification code is executed on the uploaded dataset.
VerifyExec ==
    /\ pc = "verify"
    /\ \E out \in {execute_code(query.llm_result.code,
                                session_state.dataset_summary.dataframe, SAFE_BUILTINS)} :
       \E after \in {after_verification(
                         [session_state EXCEPT !.dataset_summary.dataframe = out.df],
                         query, out)} :
           /\ session_state' = after.ss
           /\ query' = after.query
           /\ pc' = after.pc
           /\ SAFE_BUILTINS' = out.sb
           /\ host_files' = host_files \cup
                  {e.path : e \in {x \in out.ran.fx : x.kind = "file_write"}}
           /\ steps' = Append(steps, Step("execute_code", query.llm_result.code,
                                          IF out.pc = "raised" THEN None ELSE out.result))
    /\ UNCHANGED <<dataframe, exec_vars, llm_vars, queries>>

\* What follows a step of send_execution_results (lines 124-131).
AfterFeedbackStep(out) ==
    IF out.c.at = "done"
    THEN \E after \in {after_feedback(session_state, query, out.c)} :
             /\ session_state' = after.ss
             /\ query' = after.query
             /\ pc' = after.pc
             /\ steps' = Append(steps, Step("send_execution_results",
                                            out.c.execution_output, out.c.value))
    ELSE /\ pc' = "feedback"
         /\ UNCHANGED <<session_state, query, steps>>

\* Lines 111-124: the output goes back to the model.
SendResults ==
    /\ pc = "send"
    /\ \E execution_output \in {verification_output(query.verification_result)} :
       \E out \in {send_execution_results(llm_utils, execution_output)} :
           /\ AfterFeedbackStep(out)
           /\ Stored(out.M)
           /\ call' = [call EXCEPT !["A"] = Taken(out.c)]
    /\ UNCHANGED <<SAFE_BUILTINS, dataframe, host_files, exec_vars, calls, queries>>

\* send_message of line 209 returns or raises, and the thread runs on.
SendResultsResumes(world) ==
    /\ pc = "feedback"
    /\ \E out \in {resume(llm_utils, call["A"], world)} :
           /\ AfterFeedbackStep(out)
           /\ Stored(out.M)
           /\ call' = [call EXCEPT !["A"] = Taken(out.c)]
    /\ UNCHANGED <<SAFE_BUILTINS, dataframe, host_files, exec_vars, calls, queries>>

\* Lines 134-156: the final code is executed and the answer is appended.
FinalExec ==
    /\ pc = "final"
    /\ \E out \in {execute_code(query.llm_result.code,
                                session_state.dataset_summary.dataframe, SAFE_BUILTINS)} :
       \E after \in {after_final(
                         [session_state EXCEPT !.dataset_summary.dataframe = out.df],
                         [query EXCEPT !.final_code = query.llm_result.code], out)} :
           /\ session_state' = after.ss
           /\ query' = after.query
           /\ pc' = after.pc
           /\ SAFE_BUILTINS' = out.sb
           /\ host_files' = host_files \cup
                  {e.path : e \in {x \in out.ran.fx : x.kind = "file_write"}}
           /\ steps' = Append(steps, Step("execute_code", query.llm_result.code,
                                          IF out.pc = "raised" THEN None ELSE out.result))
    /\ UNCHANGED <<dataframe, exec_vars, llm_vars, queries>>

\* Another session of the process, in thread "B": its script calls ask_llm
\* with its prompt and the summary of its dataset (lines 79-82) and
\* reset_chat_session (lines 181, 220).  Its own history is not part of the
\* state.
OtherWorlds == {Fine(Payload(StmtText("print"), "false"))}
OtherInputs ==
    [user_query : {<<"q">>}, data_summary : {<<"t">>}, reset_chat : {FALSE},
     world : {Fine(NotJson)}]
OtherAsks ==
    /\ Idle("B")
    /\ calls < MaxCalls
    /\ \E in \in OtherInputs :
       \E out \in {ask_llm(llm_utils, in.user_query, in.data_summary, in.reset_chat, in.world)} :
           /\ Stored(out.M)
           /\ call' = [call EXCEPT !["B"] = Taken(out.c)]
    /\ calls' = calls + 1
    /\ UNCHANGED <<SAFE_BUILTINS, dataframe, host_files, pc, exec_vars, app_vars>>
OtherResets ==
    /\ Idle("B")
    /\ calls < MaxCalls
    /\ Stored(reset_chat_session(llm_utils))
    /\ calls' = calls + 1
    /\ UNCHANGED <<SAFE_BUILTINS, dataframe, host_files, pc, exec_vars, app_vars, call>>
OtherResumes ==
    /\ ~ Idle("B")
    /\ \E world \in OtherWorlds : \E out \in {resume(llm_utils, call["B"], world)} :
           /\ Stored(out.M)
           /\ call' = [call EXCEPT !["B"] = Taken(out.c)]
    /\ UNCHANGED <<SAFE_BUILTINS, dataframe, host_files, pc, exec_vars, app_vars, calls>>

NextApp ==
    \/ \E name \in Files : PickFile(name)
    \/ RemoveFile
    \/ ClearHistory
    \/ \E prompt \in Prompts : \E world \in StartWorlds : StartQuery(prompt, world)
    \/ \E world \in AppWorlds : AskLlmResumes(world)
    \/ VerifyExec
    \/ SendResults
    \/ \E world \in FollowUpWorlds : SendResultsResumes(world)
    \/ FinalExec
    \/ OtherAsks
    \/ OtherResets
    \/ OtherResumes

SpecApp == InitModule /\ [][NextApp]_vars

(***************************************************************************)
(* Properties.                                                             *)
(***************************************************************************)
Range(q) == {q[i] : i \in 1..Len(q)}
Done == pc \in {"returned", "raised"}
IsBlankText(text) == \A i \in 1..Len(text) : text[i] \in Whitespace
EndsWith(s, suffix) ==
    Len(suffix) <= Len(s) /\ SubSeq(s, Len(s) - Len(suffix) + 1, Len(s)) = suffix

\* Everything reachable from a value through list, tuple and set elements and
\* mapping values, and with keys = TRUE through mapping keys as well.
RECURSIVE Reachable(_, _)
Reachable(v, keys) ==
    {v} \cup
    (IF v.kind \in {"list", "tuple", "set"}
     THEN UNION {Reachable(v.items[i], keys) : i \in 1..Len(v.items)}
     ELSE IF v.kind = "dict"
     THEN UNION {Reachable(v.items[i].val, keys)
                 \cup (IF keys THEN Reachable(v.items[i].key, keys) ELSE {})
                 : i \in 1..Len(v.items)}
     ELSE {})
ReachableFrom(vals, keys) == UNION {Reachable(vals[i], keys) : i \in 1..Len(vals)}

\* C1: a call whose code is empty or only whitespace returns the result with
\* the error "No code to execute.", no figures, no tables and an empty stdout,
\* and nothing was executed: no environment was built, no effect happened.
C1_NoCode ==
    (Done /\ IsBlankText(code)) =>
        /\ pc = "returned"
        /\ result = ExecutionResult(<<>>, <<>>, <<>>, ErrorText("No code to execute."))
        /\ ran = NotRun
        /\ dataframe = df_before
C1_Witness ==
    /\ pc = "returned"
    /\ code # <<>>
    /\ IsBlankText(code)
    /\ result.error.msg = "No code to execute."

\* C2: whenever the execution of the code raised an exception, the call
\* returns a result with no figures and no tables, an error report, and as
\* stdout exactly the console output written before the failure.
C2_ErrorResult ==
    (Done /\ ran.exc # NoExc) =>
        /\ pc = "returned"
        /\ result.figures = <<>>
        /\ result.tables = <<>>
        /\ result.error # NoError
        /\ result.stdout = ran.console

\* C3: a call with non-empty code always returns an ExecutionResult; no
\* exception reaches the caller, from the execution or from the collection.
C3_NoEscape ==
    (Done /\ ~ IsBlankText(code)) => (pc = "returned" /\ escaped = NoExc)

\* C4: the caller's dataset is equal before and after every call.
C4_DatasetUnchanged ==
    Done => dataframe = df_before

\* C5: a code that refers to the name open, which is not on the allow-list
\* and which the code does not bind, gets a name-resolution error and has no
\* effect outside the execution environment.
RefersToUnlisted(text) ==
    LET stmts == Range(Parse(text).stmts)
    IN  "open" \in stmts /\ "setb" \notin stmts
C5_UnlistedName ==
    (Done /\ RefersToUnlisted(code)) =>
        /\ pc = "returned"
        /\ result.error.exc = "NameError"
        /\ ran.fx = {}

\* C6: no call can use the capabilities of its environment for I/O or for
\* reflection into the host: no call has an effect outside its environment.
C6_NoHostEffect ==
    Done => (ran.fx = {} /\ host_files = {})

\* C7: after a successful execution a table found in the bindings is left out
\* of the result's tables exactly when its shape and its column names equal
\* those of the input dataset, whatever its cells hold.
C7_Exclusion ==
    (pc = "returned" /\ result.error = NoError) =>
        \A t \in ReachableFrom(ran.bindings, FALSE) :
            t.kind = "DataFrame" =>
                ((t \notin Range(result.tables)) <=>
                    (/\ t.nrows = dataframe.nrows
                     /\ Len(t.columns) = Len(dataframe.columns)
                     /\ t.columns = dataframe.columns))
C7_Witness ==
    /\ pc = "returned"
    /\ OtherCells(dataframe) # dataframe
    /\ ran.locals = <<List(<<OtherCells(dataframe), MoreRows(dataframe)>>)>>
    /\ Len(ran.globals) = Len(safe_globals(dataframe))
    /\ result.tables = <<MoreRows(dataframe)>>

\* C8: after a successful execution every figure and every table that is not
\* excluded, reachable through any nesting of list, tuple and set elements and
\* mapping values, is in the result; one reachable only through a mapping key
\* is not.
C8_Nested ==
    (pc = "returned" /\ result.error = NoError) =>
        LET byValue == ReachableFrom(ran.bindings, FALSE)
            byAny == ReachableFrom(ran.bindings, TRUE)
            found == Range(result.figures) \cup Range(result.tables)
        IN  /\ \A a \in byValue :
                /\ a.kind = "figure" => a \in Range(result.figures)
                /\ (a.kind = "DataFrame" /\ ~ (/\ <<a.nrows, Len(a.columns)>> = <<dataframe.nrows, Len(dataframe.columns)>>
                                              /\ a.columns = dataframe.columns))
                       => a \in Range(result.tables)
            /\ \A a \in byAny \ byValue : a \notin found
C8_Witness ==
    /\ pc = "returned"
    /\ ran.locals = <<List(<<Dict(<<Item(KeyFigure, Figure(1))>>)>>)>>
    /\ Len(ran.globals) = Len(safe_globals(dataframe))
    /\ result.figures = <<Figure(1)>>

\* C9: for a code of more than one line whose final line is a bare expression,
\* the printed value of that expression ends the stdout of the result.
FinalExpression(text) ==
    LET lines == split(strip(text), "\n")
    IN  {id \in ExprStmts : Len(lines) > 1 /\ strip(lines[Len(lines)]) = StmtText(id)}
ValueOfFinal(text) ==
    LET lines == split(strip(text), "\n")
        env0 == [g |-> safe_globals(df_before), l |-> <<>>, out |-> <<>>,
                 sb |-> SAFE_BUILTINS, orig |-> df_before, fx |-> {}, exc |-> NoExc,
                 val |-> None]
        before == exec(join(SubSeq(lines, 1, Len(lines) - 1)), env0)
    IN  RunStmt(CHOOSE id \in FinalExpression(text) : TRUE, before).val
C9_LastExpression ==
    (pc = "returned" /\ result.error = NoError /\ FinalExpression(code) # {}) =>
        EndsWith(result.stdout, str(ValueOfFinal(code)))

\* C10: a call repeated with the same code and an equal dataset gives the
\* same outcome as the call before it.
C10_Deterministic ==
    (Done /\ again /\ first.df = df_before) =>
        (pc = first.pc /\ result = first.result /\ escaped = first.escaped)

\* C11: every call starts with the capability mapping equal to the fixed
\* allow-list, whatever the calls before it bound, rebound or removed.
C11_FreshCapabilities ==
    pc = "called" => SAFE_BUILTINS = InitialSafeBuiltins

\* The artifacts the two sequences of the result are made of.
IsFigure(v) == v.kind = "figure"
IsNewTable(v) ==
    /\ v.kind = "DataFrame"
    /\ ~ (v.nrows = dataframe.nrows /\ v.columns = dataframe.columns)
Wanted(v, what) == IF what = "figures" THEN IsFigure(v) ELSE IsNewTable(v)
\* The places of the bindings where an artifact sits: the index of the binding,
\* then the index inside each container on the way (for a mapping, the index
\* of the item whose value is entered).
RECURSIVE Places(_, _, _)
Places(v, here, what) ==
    IF v.kind \in {"figure", "DataFrame"} THEN (IF Wanted(v, what) THEN {here} ELSE {})
    ELSE IF v.kind \in {"list", "tuple", "set"}
         THEN UNION {Places(v.items[i], Append(here, i), what) : i \in 1..Len(v.items)}
    ELSE IF v.kind = "dict"
         THEN UNION {Places(v.items[i].val, Append(here, i), what) : i \in 1..Len(v.items)}
    ELSE {}
PlacesIn(vals, what) ==
    UNION {Places(vals[i], <<i>>, what) : i \in 1..Len(vals)}
RECURSIVE ValueAt(_, _)
ValueAt(v, place) ==
    IF place = <<>> THEN v
    ELSE ValueAt(IF v.kind = "dict" THEN v.items[Head(place)].val ELSE v.items[Head(place)],
                 Tail(place))
\* p comes before q, left to right: at the first index where they differ.
Before(p, q) ==
    \E k \in 1..Len(p) :
        /\ k <= Len(q)
        /\ p[k] < q[k]
        /\ \A j \in 1..(k - 1) : p[j] = q[j]
DepthFirst(vals, what) ==
    LET places == PlacesIn(vals, what)
        nth(n) == CHOOSE p \in places : Cardinality({q \in places : Before(q, p)}) = n - 1
    IN  [n \in 1..Cardinality(places) |-> ValueAt(List(vals), nth(n))]

\* C12: the figures and the tables of the result are in the order of the
\* depth-first, left-to-right flattening of the values of the global scope in
\* binding order, followed by that of the values of the local scope in
\* binding order, each container expanded in place.
C12_Order ==
    (pc = "returned" /\ result.error = NoError) =>
        /\ result.figures = DepthFirst(ran.globals, "figures")
                            \o DepthFirst(ran.locals, "figures")
        /\ result.tables = DepthFirst(ran.globals, "tables")
                           \o DepthFirst(ran.locals, "tables")
\* Two different figures in a list and a table beside it in the global scope,
\* another table in the local scope: the figures are in the order of the
\* list, and the table of the global scope is before that of the local scope.
C12_Witness ==
    /\ pc = "returned"
    /\ ran.globals[Len(ran.globals)] =
           List(<<List(<<OtherFigure, Figure(1)>>), MoreRows(dataframe)>>)
    /\ ran.locals = <<Renamed(dataframe)>>
    /\ result.figures = <<OtherFigure, Figure(1)>>
    /\ result.tables = <<MoreRows(dataframe), Renamed(dataframe)>>

\* The call of thread t is one of ask_llm; what it was given and what it found.
Asked(t) == call[t].op = "ask_llm"
SessionBefore(t) == call[t].before.chat_session
ReuseCondition(t) ==
    /\ ~ call[t].reset_chat
    /\ SessionBefore(t) # None
    /\ call[t].before.current_data_summary = call[t].data_summary
\* The call made no session and left the one that was there, or it made one
\* with chats.create.
Reused(t) == SessionBefore(t) # None /\ call[t].new = None
CreatedNew(t) == call[t].new # None /\ call[t].new.id > call[t].before.created
PassedChecks(t) ==
    /\ ~ IsBlankText(call[t].user_query)
    /\ ~ IsBlankText(call[t].data_summary)
    /\ call[t].world.api_key
\* The system prompt was read and chats.create returned.
Created(t) ==
    /\ call[t].at # "prompt"
    /\ call[t].world.system_prompt
    /\ call[t].world.create = NoExc

\* C13 as stated: every ask_llm call reuses the session of the previous call
\* exactly when reset_chat is false, a session exists and the summary equals
\* the one the session was created with, and creates a new session otherwise.
C13_ReuseEveryCall ==
    \A t \in Threads :
        (Asked(t) /\ call[t].at = "done")
        => ((Reused(t) <=> ReuseCondition(t)) /\ (~ ReuseCondition(t) => CreatedNew(t)))

\* C13 as amended: an ask_llm call that passes the checks of its arguments
\* and of the API key hands its request to the session that the module holds
\* when the call starts, and creates none, exactly when reset_chat is false,
\* a session exists and the summary equals the one stored with it; otherwise
\* it creates a new session and stores it with the summary of the call,
\* unless the system prompt cannot be loaded or chats.create raises.  A call
\* that fails the checks, or whose creation raises, creates no session and
\* hands no message to any.
C13_ReuseCheckedCall ==
    \A t \in Threads :
        Asked(t) =>
            /\ (PassedChecks(t) /\ ReuseCondition(t)) =>
                   (/\ Reused(t)
                    /\ call[t].session = SessionBefore(t)
                    /\ call[t].sent = <<RequestMessage(call[t].user_query)>>)
            /\ (PassedChecks(t) /\ ~ ReuseCondition(t) /\ Created(t)) =>
                   (/\ CreatedNew(t)
                    /\ call[t].new # SessionBefore(t)
                    /\ call[t].sent[1] = ContextMessage(call[t].data_summary)
                    /\ call[t].at = "context"
                       => /\ call[t].left.chat_session = call[t].new
                          /\ call[t].left.current_data_summary = call[t].data_summary)
            /\ (~ PassedChecks(t) \/ (~ ReuseCondition(t) /\ ~ Created(t))) =>
                   (call[t].new = None /\ call[t].session = None /\ call[t].sent = <<>>)
            /\ ~ PassedChecks(t) => call[t].left = call[t].before
\* The second call of a thread finds the session of the first and returns
\* the answer to the request it handed to it.
C13_Witness ==
    \E t \in Threads :
        /\ Asked(t)
        /\ calls = 2
        /\ PassedChecks(t)
        /\ ReuseCondition(t)
        /\ Reused(t)
        /\ call[t].session = SessionBefore(t)
        /\ call[t].at = "done"
        /\ call[t].value # None

\* C14: ask_llm with a blank user_query raises ValueError "User query must not
\* be empty."; with a non-blank query and a blank data_summary it raises
\* ValueError "Data summary must not be empty."; in both cases, whatever
\* reset_chat is, the client, the session and the stored summary are as
\* before the call and no message was handed to the model.
C14_InvalidInput ==
    \A t \in Threads :
        (Asked(t) /\ (IsBlankText(call[t].user_query) \/ IsBlankText(call[t].data_summary)))
        => /\ call[t].at = "done"
           /\ call[t].raised =
                  (IF IsBlankText(call[t].user_query)
                   THEN Exc("ValueError", "User query must not be empty.")
                   ELSE Exc("ValueError", "Data summary must not be empty."))
           /\ call[t].left = call[t].before
           /\ call[t].sent = <<>>
           /\ call[t].new = None
C14_Witness ==
    \E t \in Threads :
        /\ Asked(t)
        /\ call[t].user_query = <<" ">>
        /\ call[t].reset_chat
        /\ SessionBefore(t) # None
        /\ call[t].raised.type = "ValueError"

\* The names that the module llm_utils defines for its state (lines 19-21).
ModuleNamespace ==
    [_chat_session |-> _chat_session, _current_data_summary |-> _current_data_summary,
     _client |-> _client]
\* C15: after reset_chat_session the module's _chat_messages is an empty
\* list, no session is active and _current_data_summary is None.
C15_ResetEmpties ==
    \A t \in Threads :
        call[t].op = "reset_chat_session" =>
            /\ "_chat_messages" \in DOMAIN ModuleNamespace
            /\ ModuleNamespace["_chat_messages"] = <<>>
            /\ call[t].left.chat_session = None
            /\ call[t].left.current_data_summary = None

\* C19: whenever ask_llm hands a user request to a session, the first message
\* delivered on that session before is the context message of the
\* data_summary of the call.
RequestSent(t) == \E i \in 1..Len(call[t].sent) : call[t].sent[i].kind = "request"
C19_ContextFirst ==
    \A t \in Threads :
        (Asked(t) /\ RequestSent(t)) =>
            /\ call[t].seen # <<>>
            /\ call[t].seen[1] = ContextMessage(call[t].data_summary)

\* The last message of the chat history.
LastMessage == session_state.chat_history[Len(session_state.chat_history)]
IsErrorMessage(message) == message.role = "assistant" /\ "error" \in DOMAIN message

\* C16: whenever the model client raised while a user query was processed
\* (in ask_llm or in send_execution_results), _process_user_query returned
\* normally and appended, after the user message, exactly one assistant
\* message that carries an error text.
C16_ClientErrorsShown ==
    (query.at = "done" /\ query.client_error # NoExc)
    => /\ query.outcome = "returned"
       /\ Len(session_state.chat_history) = query.len0 + 2
       /\ IsErrorMessage(LastMessage)

\* The final execution of a query is over and its message is appended.
FinalShown ==
    query.at = "done" /\ query.outcome = "returned" /\ query.execution_result # NoResult
NoCodeShown ==
    /\ IsErrorMessage(LastMessage)
    /\ LastMessage.error.text = "The AI didn't generate executable code for this request."
\* C17: after the final execution the message "didn't generate executable
\* code" is shown if and only if the code passed to execute_code was empty or
\* whitespace-only, and a result whose error is the report of a runtime
\* failure is shown as "Code execution failed".
C17_NoCodeIffBlank ==
    FinalShown
    => /\ NoCodeShown <=> no_code(query.final_code)
       /\ query.execution_result.error.kind = "traceback"
          => /\ IsErrorMessage(LastMessage)
             /\ LastMessage.error.text = "Code execution failed"

\* The first response of the query asked for a verification.
Verifying == query.at # "none" /\ query.first # None /\ query.first.needs_verification
\* C18: in a query whose first response has needs_verification set, the calls
\* are, in this order, ask_llm, execute_code on the verification code,
\* send_execution_results with the output of that execution, execute_code on
\* the code of the follow-up response, whose result is the one shown; nothing
\* is called after a verification that returned an error; there is at most
\* one round trip whatever flag the follow-up carries; and a query whose
\* verification and round trip succeed does not end before the final execution.
C18_VerificationOrder ==
    Verifying
    => /\ Len(steps) \in 1..4
       /\ steps[1].fn = "ask_llm" /\ steps[1].value = query.first
       /\ Len(steps) >= 2
          => steps[2].fn = "execute_code" /\ steps[2].arg = query.first.code
       /\ Len(steps) >= 3
          => /\ steps[2].value # None
             /\ steps[2].value.error = NoError
             /\ steps[3].fn = "send_execution_results"
             /\ steps[3].arg = verification_output(steps[2].value)
       /\ Len(steps) = 4
          => /\ steps[3].value # None
             /\ steps[4].fn = "execute_code"
             /\ steps[4].arg = steps[3].value.code
             /\ steps[4].value # None => query.execution_result = steps[4].value
       /\ (pc = "idle" /\ Len(steps) = 2)
          => \/ steps[2].value = None
             \/ steps[2].value.error # NoError /\ IsErrorMessage(LastMessage)
       /\ (pc = "idle" /\ Len(steps) = 3) => steps[3].value = None
       /\ pc = "idle" => Len(steps) >= 2
\* A query with a verification round trip whose follow-up response is flagged
\* again has executed the follow-up code and has ended.
C18_Witness ==
    /\ Verifying
    /\ pc = "idle"
    /\ Len(steps) = 4
    /\ steps[3].value.needs_verification
    /\ steps[4].value # None
    /\ steps[4].value.error = NoError
    /\ query.outcome = "returned"

\* C20: the id of every message of chat_history is its position (from 0), so
\* the ids are pairwise distinct.
C20_IdsArePositions ==
    /\ \A i \in 1..Len(session_state.chat_history) :
           session_state.chat_history[i].id = i - 1
    /\ \A i, j \in 1..Len(session_state.chat_history) :
           i # j => session_state.chat_history[i].id # session_state.chat_history[j].id
\* An upload, a user query and its answer: three messages.
C20_Witness ==
    /\ pc = "idle"
    /\ query.at = "done"
    /\ Len(session_state.chat_history) >= 3
    /\ LastMessage.role = "assistant"
    /\ session_state.chat_history[2].role = "user"

\* send_execution_results was called by thread t while no chat session was
\* active.
SentWithoutSession(t) ==
    call[t].op = "send_execution_results" /\ call[t].before.chat_session = None
\* C21: send_execution_results called while no chat session is active raises
\* RuntimeError "No active chat session. Call ask_llm first.", hands no
\* message to the model and leaves the module globals as they were.
C21_NoSession ==
    \A t \in Threads :
        SentWithoutSession(t)
        => /\ call[t].at = "done"
           /\ call[t].raised =
                  Exc("RuntimeError", "No active chat session. Call ask_llm first.")
           /\ call[t].value = None
           /\ call[t].sent = <<>>
           /\ call[t].left = call[t].before
\* The call came after an ask_llm that created a session and a
\* reset_chat_session that dropped it.
C21_Witness ==
    \E t \in Threads :
        /\ SentWithoutSession(t)
        /\ call[t].before.created >= 1
        /\ call[t].before.client # None
        /\ call[t].raised.type = "RuntimeError"

====
